---------------------------- MODULE Spec2Model ----------------------------
(***************************************************************************)
(* A model of github.com/devnev/go-grouped: the call-coalescing group      *)
(* (Calls.Do, calls.go) and the reference-counted cache built on it        *)
(* (RefCache, refcache.go).                                                *)
(*                                                                         *)
(* Every goroutine is a process p \in Procs that performs one call.  The   *)
(* steps of a call are the places where the Go scheduler can interleave    *)
(* goroutines: a critical section of a mutex is one step, a select is one  *)
(* step per case it can choose, and a user callback runs between the step  *)
(* that invokes it and the step in which it returns.                       *)
(***************************************************************************)
EXTENDS Integers, Sequences, FiniteSets, TLC

(* Number of goroutines. *)
NProc == 3

Procs == 1..NProc

(* Keys the callers use with the Calls object under test. *)
Keys == {"a", "b"}

(* The nil interface value / nil pointer. *)
Nil == 0

(* The Calls object that callers use directly (var calls grouped.Calls). *)
UserCalls == 0

(* The Calls object of a Cache (its field callgroup). *)
CacheCalls == -1

(* Status (status.go). *)
Canceled == "Canceled"
Exclusive == "Exclusive"
Shared == "Shared"

(* The value and status a call has not returned yet. *)
NoRet == [val |-> Nil, status |-> "none"]

Ret(v, s) == [val |-> v, status |-> s]

(* The payload that the callback of caller p produces: distinct per caller. *)
Payload(p) == p

VARIABLES
    pc,        \* pc[p]: where goroutine p is in its call
    op,        \* op[p]: the operation p performs ("none" before it starts)
    grp,       \* grp[p]: the Calls object p's Do runs on (receiver g)
    key,       \* key[p]: the key argument of p's Do
    cancel,    \* cancel[p]: the cancel channel argument: "open" or "closed"
    doFn,      \* doFn[p]: what p's callback did: "accept", "reject" or "panic"
    inner,     \* inner[p]: the call state p registered on (local variable inner)
    ret,       \* ret[p]: what p's Do returned
    called,    \* called[p]: number of times p's callback was invoked
    via,       \* via[p]: the select case p's Do took
    early,     \* early[p]: p's cancel signal fired before its call state accepted
    groups,    \* groups[g]: the map g.groups of Calls object g (key -> call state)
    calls,     \* calls[c]: the callGroupInner object c
    acceptedBy \* acceptedBy[c]: the leader whose result call state c accepted

callsVars == <<pc, op, grp, key, cancel, doFn, inner, ret, called, via, early,
               groups, calls, acceptedBy>>

VARIABLES
    items,       \* items: the map p.items of the RefCache (key -> item)
    heap,        \* heap[i]: the refCacheItem object i
    closerCalls, \* closerCalls[i]: number of times item i's closer was invoked
    item,        \* item[p]: the local variable item of p's Get or Delete
    handle,      \* handle[p]: the item whose close p's Get returned, or Nil
    released,    \* released[p]: p called the release callback it holds
    fetched,     \* fetched[p]: number of times p's fetch was invoked
    stale,       \* stale: the values for which p.Valid returns false
    keepFn,      \* keepFn[p]: the values for which the keep of p's Purge returns false
    invalid      \* invalid[p]: the local slice invalid of p's Purge (its items)

purgeVars == <<keepFn, invalid>>

rcVars == <<items, heap, closerCalls, item, handle, released, fetched, stale,
            purgeVars>>

VARIABLES
    addedFuncs,  \* addedFuncs: s.addedFuncs of the ErrFuncs (indices into funcs)
    lastSpawn,   \* lastSpawn: s.lastSpawn (index into spawns, or Nil)
    started,     \* started: what the last call of s.start() returned, and
                 \* whether that call created it
    funcs,       \* funcs[t]: the t-th function given to Add, and its goroutine
    spawns,      \* spawns[g]: the g-th spawnedErrFuncs, and its run goroutine
    ctxDone      \* ctxDone: the context that s.Ctx held is done

efVars == <<addedFuncs, lastSpawn, started, funcs, spawns, ctxDone>>

VARIABLES
    values,      \* values: the map p.values of the Cache (key -> value)
    removals,    \* removals: number of values that Delete, DeleteUnless and
                 \* Purge removed from the Cache
    startGen,    \* startGen[p]: removals when p's Cache.Get started, or -1
    builtAt      \* builtAt[p]: removals when p's get() was invoked, or -1

cacheVars == <<values, removals, startGen, builtAt>>

VARIABLES
    okFuncs,     \* okFuncs: s.funcs of the WaitOKGroup (indices into okParams)
    okLast,      \* okLast: s.last (index into okSpawns, or Nil)
    okStarted,   \* okStarted: what the last call of s.start() returned
    okParams,    \* okParams[t]: the t-th function given to Add, and its goroutine
    okSpawns     \* okSpawns[g]: the g-th spawnedOKGroup, and its run goroutine

okVars == <<okFuncs, okLast, okStarted, okParams, okSpawns>>

vars == <<callsVars, rcVars, efVars, cacheVars, okVars>>

(* Where a goroutine continues when Do returns: a direct caller is done,
   RefCache.Get continues in refCacheItem.fill (refcache.go line 203). *)
AfterDo(p) == IF op[p] \in {"Do", "CacheGet"} THEN "returned" ELSE "fill_ret"

(* Where a goroutine continues when a panic leaves Do: a direct caller ends,
   RefCache.Get runs its deferred function (refcache.go lines 34-38). *)
AfterPanic(p) == IF op[p] \in {"Do", "CacheGet"} THEN "panicked" ELSE "get_panic"

-----------------------------------------------------------------------------
(* callGroupInner and the map of a Calls object *)

(* &callGroupInner{leader: make(chan struct{}, 1), done: make(chan struct{})}
   followed by leader <- struct{}{}: one token buffered, done open.  Of the
   leader channel the model keeps the number of buffered tokens (leader) and
   the queue of goroutines blocked in the select (recvq), in arrival order. *)
NewInner ==
    [leader |-> 1, recvq |-> <<>>, done |-> FALSE, result |-> Nil,
     monitors |-> 0]

(* g.groups[key], Nil when the key is absent. *)
Lookup(g, k) == IF k \in DOMAIN groups[g] THEN groups[g][k] ELSE Nil

(* A map with key k set to v. *)
MapPut(m, k, v) == [x \in DOMAIN m \cup {k} |-> IF x = k THEN v ELSE m[x]]

(* delete(m, k) *)
MapDelete(m, k) == [x \in DOMAIN m \ {k} |-> m[x]]

(* inner.monitors++ *)
IncMonitors(n) == n + 1

(* inner.monitors-- *)
DecMonitors(n) == n - 1

(* A receive that leaves the token in the channel. *)
TakeTokenKeep(n) == n

(* <-inner.leader: the token leaves the channel's buffer. *)
TakeToken(n) == n - 1

(* inner.leader <- struct{}{} with no goroutine blocked on the channel: the
   token goes into the buffer. *)
PutToken(n) == n + 1

(* A classification that counts the leader itself as a sharer. *)
ClassifyAny(monitors) == IF monitors > 0 THEN Shared ELSE Exclusive

(* The status of the accepting leader. *)
Classify(monitors) == IF monitors > 1 THEN Shared ELSE Exclusive

(* The call state c has accepted a result. *)
Accepted(c) == acceptedBy[c] # Nil

(* The sequence q without its element p. *)
Without(q, p) == SelectSeq(q, LAMBDA x : x # p)

(* The elements of the sequence q. *)
Range(q) == {q[i] : i \in 1..Len(q)}

-----------------------------------------------------------------------------
(* Calls.Do *)

(* Lines 18-31: under g.mu, find or create the call state of the key and
   register on it. *)
Register(p, g, k) ==
    LET fresh == Lookup(g, k) = Nil
        c == IF fresh THEN Len(calls) + 1 ELSE Lookup(g, k)
        base == IF fresh THEN Append(calls, NewInner) ELSE calls
    IN /\ groups' = IF fresh
                    THEN [groups EXCEPT ![g] = MapPut(@, k, c)]
                    ELSE groups
       /\ calls' = [base EXCEPT ![c].monitors = IncMonitors(@)]
       /\ acceptedBy' = IF fresh THEN Append(acceptedBy, Nil) ELSE acceptedBy
       /\ inner' = [inner EXCEPT ![p] = c]
       /\ grp' = [grp EXCEPT ![p] = g]
       /\ key' = [key EXCEPT ![p] = k]
       /\ pc' = [pc EXCEPT ![p] = "select"]

(* Goroutines are numbered in the order in which they make their call. *)
IsNext(p) == pc[p] = "idle" /\ \A q \in Procs : q < p => pc[q] # "idle"

(* A caller starts Do on the user's Calls object.  Its cancel channel is
   open: a nil channel is one that is never closed, and one that is closed
   before the call is one that FireCancel closes right after line 31. *)
CallDo(p) ==
    /\ IsNext(p)
    /\ \E k \in Keys : Register(p, UserCalls, k)
    /\ op' = [op EXCEPT ![p] = "Do"]
    /\ UNCHANGED <<cancel, doFn, ret, called, via, early>>
    /\ UNCHANGED rcVars
    /\ UNCHANGED <<efVars, cacheVars, okVars>>

(* The owner of the cancel channel closes it.  Do reads the channel only in
   the select, so closing it earlier is closing it when the caller reaches the
   select, and closing it later changes nothing.  A goroutine blocked in the
   select is woken with the cancel case (line 34) and leaves the leader
   channel's queue. *)
FireCancel(p) ==
    /\ pc[p] \in {"select", "parked"}
    /\ cancel[p] = "open"
    /\ cancel' = [cancel EXCEPT ![p] = "closed"]
    /\ early' = [early EXCEPT ![p] = ~Accepted(inner[p])]
    /\ IF pc[p] = "parked"
       THEN /\ pc' = [pc EXCEPT ![p] = "cancel_lock"]
            /\ via' = [via EXCEPT ![p] = "cancel"]
            /\ calls' = [calls EXCEPT ![inner[p]].recvq = Without(@, p)]
       ELSE UNCHANGED <<pc, via, calls>>
    /\ UNCHANGED <<op, grp, key, doFn, inner, ret, called, groups, acceptedBy>>
    /\ UNCHANGED rcVars
    /\ UNCHANGED <<efVars, cacheVars, okVars>>

(* Line 33: no case of the select is ready, the goroutine blocks on the three
   channels. *)
Park(p) ==
    /\ pc[p] = "select"
    /\ cancel[p] = "open"
    /\ ~calls[inner[p]].done
    /\ calls[inner[p]].leader = 0
    /\ calls' = [calls EXCEPT ![inner[p]].recvq = Append(@, p)]
    /\ pc' = [pc EXCEPT ![p] = "parked"]
    /\ UNCHANGED <<op, grp, key, cancel, doFn, inner, ret, called, via, early,
                   groups, acceptedBy>>
    /\ UNCHANGED rcVars
    /\ UNCHANGED <<efVars, cacheVars, okVars>>

(* Line 34: the select finds the cancel channel closed. *)
SelectCancel(p) ==
    /\ pc[p] = "select"
    /\ cancel[p] = "closed"
    /\ pc' = [pc EXCEPT ![p] = "cancel_lock"]
    /\ via' = [via EXCEPT ![p] = "cancel"]
    /\ UNCHANGED <<op, grp, key, cancel, doFn, inner, ret, called, early,
                   groups, calls, acceptedBy>>
    /\ UNCHANGED rcVars
    /\ UNCHANGED <<efVars, cacheVars, okVars>>

(* The re-check of lines 37-42 with the comparison inverted. *)
CancelLockedInverted(p) ==
    /\ pc[p] = "cancel_lock"
    /\ IF inner[p] = Lookup(grp[p], key[p])
       THEN /\ ret' = [ret EXCEPT ![p] = Ret(calls[inner[p]].result, Shared)]
            /\ calls' = calls
       ELSE /\ calls' = [calls EXCEPT ![inner[p]].monitors = DecMonitors(@)]
            /\ ret' = [ret EXCEPT ![p] = Ret(Nil, Canceled)]
    /\ pc' = [pc EXCEPT ![p] = AfterDo(p)]
    /\ UNCHANGED <<op, grp, key, cancel, doFn, inner, called, via, early,
                   groups, acceptedBy>>
    /\ UNCHANGED rcVars
    /\ UNCHANGED <<efVars, cacheVars, okVars>>

(* Lines 35-42: under g.mu, the canceled caller checks whether its call state
   is still the one of the key. *)
CancelLocked(p) ==
    /\ pc[p] = "cancel_lock"
    /\ IF inner[p] # Lookup(grp[p], key[p])
       THEN /\ ret' = [ret EXCEPT ![p] = Ret(calls[inner[p]].result, Shared)]
            /\ calls' = calls
       ELSE /\ calls' = [calls EXCEPT ![inner[p]].monitors = DecMonitors(@)]
            /\ ret' = [ret EXCEPT ![p] = Ret(Nil, Canceled)]
    /\ pc' = [pc EXCEPT ![p] = AfterDo(p)]
    /\ UNCHANGED <<op, grp, key, cancel, doFn, inner, called, via, early,
                   groups, acceptedBy>>
    /\ UNCHANGED rcVars
    /\ UNCHANGED <<efVars, cacheVars, okVars>>

(* Lines 43-44: the select finds the done channel closed, or the goroutine
   was blocked in the select when done was closed. *)
SelectDone(p) ==
    /\ \/ pc[p] = "select" /\ calls[inner[p]].done
       \/ pc[p] = "woken_done"
    /\ ret' = [ret EXCEPT ![p] = Ret(calls[inner[p]].result, Shared)]
    /\ pc' = [pc EXCEPT ![p] = AfterDo(p)]
    /\ via' = [via EXCEPT ![p] = "done"]
    /\ UNCHANGED <<op, grp, key, cancel, doFn, inner, called, early, groups,
                   calls, acceptedBy>>
    /\ UNCHANGED rcVars
    /\ UNCHANGED <<efVars, cacheVars, okVars>>

(* Line 45 and line 54's call: the select finds a token in the leader channel
   and the caller invokes its callback. *)
SelectLeader(p) ==
    /\ pc[p] = "select"
    /\ calls[inner[p]].leader > 0
    /\ calls' = [calls EXCEPT ![inner[p]].leader = TakeToken(@)]
    /\ called' = [called EXCEPT ![p] = @ + 1]
    /\ pc' = [pc EXCEPT ![p] = "callback"]
    /\ via' = [via EXCEPT ![p] = "leader"]
    /\ UNCHANGED <<op, grp, key, cancel, doFn, inner, ret, early, groups,
                   acceptedBy>>
    /\ UNCHANGED rcVars
    /\ UNCHANGED <<efVars, cacheVars, okVars>>

(* An acceptance that does not store the result before the key is retired. *)
DoAcceptNoStore(p, result) ==
    /\ acceptedBy' = [acceptedBy EXCEPT ![inner[p]] = p]
    /\ pc' = [pc EXCEPT ![p] = "delete"]
    /\ UNCHANGED <<calls, ret, called, via>>

(* Lines 54-55 and 59: the callback returned (result, true). *)
DoAccept(p, result) ==
    /\ calls' = [calls EXCEPT ![inner[p]].result = result]
    /\ acceptedBy' = [acceptedBy EXCEPT ![inner[p]] = p]
    /\ pc' = [pc EXCEPT ![p] = "delete"]
    /\ UNCHANGED <<ret, called, via>>

(* A return that does not send the token back. *)
HandBackDrop(p, at) ==
    /\ pc' = [pc EXCEPT ![p] = at]
    /\ UNCHANGED <<calls, called, via>>

(* The deferred function of lines 49-53 when p leaves Do at pc value at
   without having accepted: inner.leader <- struct{}{}.  The send hands the
   token to the goroutine that has been blocked on the channel for longest,
   which then invokes its callback (line 54); with none blocked the token goes
   into the buffer. *)
HandBack(p, at) ==
    LET c == inner[p]
        q == Head(calls[c].recvq)
    IN IF calls[c].recvq # <<>>
       THEN /\ calls' = [calls EXCEPT ![c].recvq = Tail(@)]
            /\ pc' = [pc EXCEPT ![p] = at, ![q] = "callback"]
            /\ called' = [called EXCEPT ![q] = @ + 1]
            /\ via' = [via EXCEPT ![q] = "handoff"]
       ELSE /\ calls' = [calls EXCEPT ![c].leader = PutToken(@)]
            /\ pc' = [pc EXCEPT ![p] = at]
            /\ UNCHANGED <<called, via>>

(* A rejection that returns the rejected payload to the rejecting caller and
   keeps the token. *)
DoRejectKeep(p) ==
    /\ pc' = [pc EXCEPT ![p] = AfterDo(p)]
    /\ ret' = [ret EXCEPT ![p] = Ret(Payload(p), Canceled)]
    /\ UNCHANGED <<calls, called, via, acceptedBy>>

(* A panic that Do recovers and turns into a Canceled return. *)
DoPanicRecovered(p) ==
    /\ HandBack(p, AfterDo(p))
    /\ ret' = [ret EXCEPT ![p] = Ret(Nil, Canceled)]
    /\ acceptedBy' = acceptedBy

(* Lines 56-57 and the deferred function: the callback returned
   accept = false. *)
DoReject(p) ==
    /\ HandBack(p, AfterDo(p))
    /\ ret' = [ret EXCEPT ![p] = Ret(Nil, Canceled)]
    /\ acceptedBy' = acceptedBy

(* The callback panicked: the deferred function runs and the panic leaves
   Do. *)
DoPanic(p) ==
    /\ HandBack(p, AfterPanic(p))
    /\ ret' = ret
    /\ acceptedBy' = acceptedBy

(* The callback of a direct caller of Do returns (or panics): what it does
   is the caller's choice. *)
CallbackReturn(p) ==
    /\ pc[p] = "callback"
    /\ op[p] = "Do"
    /\ \E f \in {"accept", "reject", "panic"} :
          /\ doFn' = [doFn EXCEPT ![p] = f]
          /\ CASE f = "accept" -> DoAccept(p, Payload(p))
               [] f = "reject" -> DoReject(p)
               [] OTHER -> DoPanic(p)
    /\ UNCHANGED <<op, grp, key, cancel, inner, early, groups>>
    /\ UNCHANGED rcVars
    /\ UNCHANGED <<efVars, cacheVars, okVars>>

(* An accepting leader that leaves the key in the map. *)
DeleteKeySkip(p) ==
    /\ pc[p] = "delete"
    /\ groups' = groups
    /\ pc' = [pc EXCEPT ![p] = "close"]
    /\ UNCHANGED <<op, grp, key, cancel, doFn, inner, ret, called, via, early,
                   calls, acceptedBy>>
    /\ UNCHANGED <<rcVars, efVars, cacheVars, okVars>>

(* Lines 61-63: under g.mu, the accepting leader removes the key. *)
DeleteKey(p) ==
    /\ pc[p] = "delete"
    /\ groups' = [groups EXCEPT ![grp[p]] = MapDelete(@, key[p])]
    /\ pc' = [pc EXCEPT ![p] = "close"]
    /\ UNCHANGED <<op, grp, key, cancel, doFn, inner, ret, called, via, early,
                   calls, acceptedBy>>
    /\ UNCHANGED rcVars
    /\ UNCHANGED <<efVars, cacheVars, okVars>>

(* Lines 65-70: close(inner.done), which wakes every goroutine blocked in
   the select with the done case (line 43), then classify by inner.monitors.
   Closing a closed channel panics. *)
CloseDone(p) ==
    /\ pc[p] = "close"
    /\ IF calls[inner[p]].done
       THEN /\ pc' = [pc EXCEPT ![p] = AfterPanic(p)]
            /\ UNCHANGED <<calls, ret>>
       ELSE /\ calls' = [calls EXCEPT ![inner[p]].done = TRUE,
                                      ![inner[p]].recvq = <<>>]
            /\ ret' = [ret EXCEPT ![p] =
                  Ret(calls[inner[p]].result, Classify(calls[inner[p]].monitors))]
            /\ pc' = [q \in Procs |->
                  IF q = p THEN AfterDo(p)
                  ELSE IF q \in Range(calls[inner[p]].recvq) THEN "woken_done"
                  ELSE pc[q]]
    /\ UNCHANGED <<op, grp, key, cancel, doFn, inner, called, via, early,
                   groups, acceptedBy>>
    /\ UNCHANGED rcVars
    /\ UNCHANGED <<efVars, cacheVars, okVars>>

-----------------------------------------------------------------------------
(* The Calls object used by concurrent callers *)

Init ==
    /\ pc = [p \in Procs |-> "idle"]
    /\ op = [p \in Procs |-> "none"]
    /\ grp = [p \in Procs |-> UserCalls]
    /\ key = [p \in Procs |-> ""]
    /\ cancel = [p \in Procs |-> "open"]
    /\ doFn = [p \in Procs |-> "none"]
    /\ inner = [p \in Procs |-> Nil]
    /\ ret = [p \in Procs |-> NoRet]
    /\ called = [p \in Procs |-> 0]
    /\ via = [p \in Procs |-> "none"]
    /\ early = [p \in Procs |-> FALSE]
    /\ groups = (UserCalls :> <<>>) @@ (CacheCalls :> <<>>)
    /\ calls = <<>>
    /\ acceptedBy = <<>>
    /\ items = <<>>
    /\ heap = <<>>
    /\ closerCalls = <<>>
    /\ item = [p \in Procs |-> Nil]
    /\ handle = [p \in Procs |-> Nil]
    /\ released = [p \in Procs |-> FALSE]
    /\ fetched = [p \in Procs |-> 0]
    /\ stale = {}
    /\ keepFn = [p \in Procs |-> {}]
    /\ invalid = [p \in Procs |-> <<>>]
    /\ addedFuncs = <<>>
    /\ lastSpawn = Nil
    /\ started = [spawn |-> Nil, preClosed |-> FALSE, created |-> FALSE]
    /\ funcs = <<>>
    /\ spawns = <<>>
    /\ ctxDone = FALSE
    /\ values = <<>>
    /\ removals = 0
    /\ startGen = [p \in Procs |-> -1]
    /\ builtAt = [p \in Procs |-> -1]
    /\ okFuncs = <<>>
    /\ okLast = Nil
    /\ okStarted = [spawn |-> Nil, preClosed |-> FALSE]
    /\ okParams = <<>>
    /\ okSpawns = <<>>

Next ==
    \/ \E p \in Procs : CallDo(p)
    \/ \E p \in Procs : FireCancel(p)
    \/ \E p \in Procs : Park(p)
    \/ \E p \in Procs : SelectCancel(p)
    \/ \E p \in Procs : CancelLocked(p)
    \/ \E p \in Procs : SelectDone(p)
    \/ \E p \in Procs : SelectLeader(p)
    \/ \E p \in Procs : CallbackReturn(p)
    \/ \E p \in Procs : DeleteKey(p)
    \/ \E p \in Procs : CloseDone(p)

Spec == Init /\ [][Next]_vars

(* A step of goroutine p inside its call.  Making the call and closing the
   cancel channel are the caller's choices and are not steps of Do. *)
Step(p) ==
    \/ Park(p)
    \/ SelectCancel(p)
    \/ CancelLocked(p)
    \/ SelectDone(p)
    \/ SelectLeader(p)
    \/ CallbackReturn(p)
    \/ DeleteKey(p)
    \/ CloseDone(p)

(* Fair scheduling: a goroutine that can take a step of its call eventually
   runs, and every invoked callback eventually returns or panics. *)
FairSpec == Spec /\ \A p \in Procs : WF_vars(Step(p))

-----------------------------------------------------------------------------
(* refCacheItem *)

(* The key under which the cache is used. *)
CacheKey == "k"

(* The key of refCacheItem.fill's call to Do. *)
FillKey == ""

(* newCacheItem: no references, an own Calls object in fillCalls, no value.
   fillCalls is TRUE while it holds the item's Calls object, FALSE once it
   holds the nil *Calls. *)
NewItem == [refs |-> 0, fillCalls |-> TRUE, value |-> Nil, closer |-> Nil]

(* p.items[key], Nil when the key is absent. *)
ItemOf(k) == IF k \in DOMAIN items THEN items[k] ELSE Nil

(* A filled() that never reports a filled item. *)
FilledNever(i) == FALSE

(* refCacheItem.filled *)
Filled(i) == ~heap[i].fillCalls

(* refCacheItem.ref: atomic.AddInt32(&i.refs, 1) *)
Ref(n) == n + 1

(* refCacheItem.close, line 222: atomic.AddInt32(&i.refs, -1) *)
Unref(n) == n - 1

(* A close that invokes the closer whatever the count. *)
InvokesCloserAlways(it) == it.closer # Nil

(* refCacheItem.close, lines 223-228: the call that brings refs to 0 invokes
   the closer, if there is one. *)
InvokesCloser(it) == Unref(it.refs) = 0 /\ it.closer # Nil

(* refCacheItem.close on each item of the set S. *)
ItemClose(S) ==
    /\ heap' = [i \in DOMAIN heap |->
                  IF i \in S THEN [heap[i] EXCEPT !.refs = Unref(@)] ELSE heap[i]]
    /\ closerCalls' = [i \in DOMAIN closerCalls |->
                  IF i \in S /\ InvokesCloser(heap[i])
                  THEN closerCalls[i] + 1 ELSE closerCalls[i]]

-----------------------------------------------------------------------------
(* RefCache.mu.  Every critical section of Get and Delete and of Purge(nil)
   is one step; only Purge with a keep holds the lock across steps: its read
   lock is released by the deferred RUnlock of line 140, when Purge returns. *)

(* The Purge calls that hold the read lock. *)
MuReaders == {p \in Procs : pc[p] \in {"purge_lock", "purge_blocked"}}

(* A call waits in p.mu.Lock (line 157) for the readers to leave. *)
MuWriterWaits == \E p \in Procs : pc[p] = "purge_blocked"

(* sync.RWMutex: RLock is granted unless a writer holds or waits for the
   lock. *)
CanRLock == ~MuWriterWaits

(* sync.RWMutex: Lock is granted when no reader and no writer holds the
   lock. *)
CanLock == MuReaders = {}

-----------------------------------------------------------------------------
(* RefCache.Get *)

(* A caller starts Get. *)
CallGet(p) ==
    /\ IsNext(p)
    /\ op' = [op EXCEPT ![p] = "Get"]
    /\ pc' = [pc EXCEPT ![p] = "get_lookup"]
    /\ UNCHANGED <<grp, key, cancel, doFn, inner, ret, called, via, early,
                   groups, calls, acceptedBy>>
    /\ UNCHANGED rcVars
    /\ UNCHANGED <<efVars, cacheVars, okVars>>

(* The number of Get callers whose cancel channel is closed. *)
MaxCancels == 1

(* The cancel channel a caller passed to Get is closed while the caller is in
   Do's select. *)
GetCancel(p) ==
    /\ op[p] = "Get"
    /\ Cardinality({q \in Procs : cancel[q] = "closed"}) < MaxCancels
    /\ FireCancel(p)

(* Lines 42-49: under the read lock, look the key up and take a reference on
   the item found. *)
GetLookup(p) ==
    /\ pc[p] = "get_lookup"
    /\ CanRLock
    /\ LET i == ItemOf(CacheKey)
       IN /\ item' = [item EXCEPT ![p] = i]
          /\ IF i # Nil
             THEN /\ heap' = [heap EXCEPT ![i].refs = Ref(@)]
                  /\ pc' = [pc EXCEPT ![p] = "fill_load"]
             ELSE /\ heap' = heap
                  /\ pc' = [pc EXCEPT ![p] = "get_create"]
    /\ UNCHANGED <<items, closerCalls, handle, released, fetched, stale>>
    /\ UNCHANGED purgeVars
    /\ UNCHANGED <<op, grp, key, cancel, doFn, inner, ret, called, via, early,
                   groups, calls, acceptedBy>>
    /\ UNCHANGED <<efVars, cacheVars, okVars>>

(* Lines 52-68: under the write lock, look the key up again, create and
   insert the item if it is still absent (one reference for the map), and
   take a reference for this call.  The new item's Calls object gets the
   item's number. *)
GetCreate(p) ==
    /\ pc[p] = "get_create"
    /\ CanLock
    /\ LET found == ItemOf(CacheKey)
           i == IF found = Nil THEN Len(heap) + 1 ELSE found
           base == IF found = Nil
                   THEN Append(heap, [NewItem EXCEPT !.refs = Ref(@)])
                   ELSE heap
       IN /\ heap' = [base EXCEPT ![i].refs = Ref(@)]
          /\ items' = IF found = Nil THEN MapPut(items, CacheKey, i) ELSE items
          /\ closerCalls' = IF found = Nil
                            THEN Append(closerCalls, 0) ELSE closerCalls
          /\ groups' = IF found = Nil THEN groups @@ (i :> <<>>) ELSE groups
          /\ item' = [item EXCEPT ![p] = i]
    /\ pc' = [pc EXCEPT ![p] = "fill_load"]
    /\ UNCHANGED <<handle, released, fetched, stale>>
    /\ UNCHANGED purgeVars
    /\ UNCHANGED <<op, grp, key, cancel, doFn, inner, ret, called, via, early,
                   calls, acceptedBy>>
    /\ UNCHANGED <<efVars, cacheVars, okVars>>

(* fill, lines 182-187: load fillCalls; a nil *Calls means the item is
   filled and fill returns (nil, Shared). *)
FillLoad(p) ==
    /\ pc[p] = "fill_load"
    /\ pc' = [pc EXCEPT ![p] =
          IF heap[item[p]].fillCalls THEN "fill_do" ELSE "validate"]
    /\ UNCHANGED <<op, grp, key, cancel, doFn, inner, ret, called, via, early,
                   groups, calls, acceptedBy>>
    /\ UNCHANGED rcVars
    /\ UNCHANGED <<efVars, cacheVars, okVars>>

(* fill, line 189: grp.Do("", cancel, ...) on the Calls object loaded, up to
   Do's line 31.  The local variable filled of fill is false: doFn is reset. *)
FillDo(p) ==
    /\ pc[p] = "fill_do"
    /\ Register(p, item[p], FillKey)
    /\ doFn' = [doFn EXCEPT ![p] = "none"]
    /\ UNCHANGED <<op, cancel, ret, called, via, early>>
    /\ UNCHANGED rcVars
    /\ UNCHANGED <<efVars, cacheVars, okVars>>

(* fill, lines 190-201, the callback that Do invokes for the leader: return
   (nil, true) when the item is filled; otherwise call fetch, which returns a
   value with a closer ("accept"), a value with a nil closer ("reject"), or
   panics.  The item cannot become filled between line 190 and fetch's return:
   only the holder of the token of the item's one unaccepted call state writes
   fillCalls. *)
FillCallback(p) ==
    /\ pc[p] = "callback"
    /\ op[p] = "Get"
    /\ IF Filled(item[p])
       THEN /\ DoAccept(p, Nil)
            /\ UNCHANGED <<doFn, heap, fetched>>
       ELSE /\ fetched' = [fetched EXCEPT ![p] = @ + 1]
            /\ \E f \in {"accept", "reject", "panic"} :
                  /\ doFn' = [doFn EXCEPT ![p] = f]
                  /\ CASE f = "accept" ->
                            /\ heap' = [heap EXCEPT
                                  ![item[p]].value = Payload(p),
                                  ![item[p]].closer = p,
                                  ![item[p]].fillCalls = FALSE]
                            /\ DoAccept(p, Nil)
                       [] f = "reject" -> DoReject(p) /\ heap' = heap
                       [] OTHER -> DoPanic(p) /\ heap' = heap
    /\ UNCHANGED <<items, closerCalls, item, handle, released, stale>>
    /\ UNCHANGED purgeVars
    /\ UNCHANGED <<op, grp, key, cancel, inner, early, groups>>
    /\ UNCHANGED <<efVars, cacheVars, okVars>>

(* A return from Get that lacks the deferred close of lines 34-38. *)
FillReturnNoClose(p) ==
    /\ pc[p] = "fill_ret"
    /\ IF ret[p].status = Canceled
       THEN /\ pc' = [pc EXCEPT ![p] = "returned"]
            /\ UNCHANGED <<ret, handle>>
       ELSE IF doFn[p] = "accept"
       THEN /\ ret' = [ret EXCEPT ![p] = Ret(heap[item[p]].value, "Get")]
            /\ handle' = [handle EXCEPT ![p] = item[p]]
            /\ pc' = [pc EXCEPT ![p] = "returned"]
       ELSE /\ pc' = [pc EXCEPT ![p] = "validate"]
            /\ UNCHANGED <<ret, handle>>
    /\ UNCHANGED <<heap, closerCalls>>
    /\ UNCHANGED <<items, item, released, fetched, stale>>
    /\ UNCHANGED purgeVars
    /\ UNCHANGED <<op, grp, key, cancel, doFn, inner, called, via, early,
                   groups, calls, acceptedBy>>
    /\ UNCHANGED <<efVars, cacheVars, okVars>>

(* fill, lines 203-210, and Get, lines 72-81: Canceled ends Get with
   (result, nil), and the deferred function of lines 34-38 closes the call's
   reference; a fill by this call ends Get with the item's value and
   item.close; otherwise Get goes on to the validity check. *)
FillReturn(p) ==
    /\ pc[p] = "fill_ret"
    /\ IF ret[p].status = Canceled
       THEN /\ ItemClose({item[p]})
            /\ pc' = [pc EXCEPT ![p] = "returned"]
            /\ UNCHANGED <<ret, handle>>
       ELSE IF doFn[p] = "accept"
       THEN /\ ret' = [ret EXCEPT ![p] = Ret(heap[item[p]].value, "Get")]
            /\ handle' = [handle EXCEPT ![p] = item[p]]
            /\ pc' = [pc EXCEPT ![p] = "returned"]
            /\ UNCHANGED <<heap, closerCalls>>
       ELSE /\ pc' = [pc EXCEPT ![p] = "validate"]
            /\ UNCHANGED <<ret, handle, heap, closerCalls>>
    /\ UNCHANGED <<items, item, released, fetched, stale>>
    /\ UNCHANGED purgeVars
    /\ UNCHANGED <<op, grp, key, cancel, doFn, inner, called, via, early,
                   groups, calls, acceptedBy>>
    /\ UNCHANGED <<efVars, cacheVars, okVars>>

(* Lines 34-38 when fetch panicked: the deferred function closes the call's
   reference and the panic leaves Get. *)
GetPanic(p) ==
    /\ pc[p] = "get_panic"
    /\ ItemClose({item[p]})
    /\ pc' = [pc EXCEPT ![p] = "panicked"]
    /\ UNCHANGED <<items, item, handle, released, fetched, stale>>
    /\ UNCHANGED purgeVars
    /\ UNCHANGED <<op, grp, key, cancel, doFn, inner, ret, called, via, early,
                   groups, calls, acceptedBy>>
    /\ UNCHANGED <<efVars, cacheVars, okVars>>

(* The number of values that p.Valid comes to reject. *)
MaxStale == 1

(* Lines 84-87: a valid item ends Get with its value and item.close.  p.Valid
   is the user's predicate: stale holds the values it rejects, and a value
   goes stale at the first call of Valid that rejects it.  A nil Valid is a
   Valid that rejects nothing. *)
Validate(p) ==
    /\ pc[p] = "validate"
    /\ \E rejects \in BOOLEAN :
          /\ rejects => \/ heap[item[p]].value \in stale
                        \/ Cardinality(stale) < MaxStale
          /\ ~rejects => heap[item[p]].value \notin stale
          /\ IF rejects
             THEN /\ stale' = stale \cup {heap[item[p]].value}
                  /\ pc' = [pc EXCEPT ![p] = "invalidate"]
                  /\ UNCHANGED <<ret, handle>>
             ELSE /\ ret' = [ret EXCEPT ![p] = Ret(heap[item[p]].value, "Get")]
                  /\ handle' = [handle EXCEPT ![p] = item[p]]
                  /\ pc' = [pc EXCEPT ![p] = "returned"]
                  /\ stale' = stale
    /\ UNCHANGED <<items, heap, closerCalls, item, released, fetched>>
    /\ UNCHANGED purgeVars
    /\ UNCHANGED <<op, grp, key, cancel, doFn, inner, called, via, early,
                   groups, calls, acceptedBy>>
    /\ UNCHANGED <<efVars, cacheVars, okVars>>

(* An invalidation that empties the item in place instead of replacing it. *)
InvalidateInPlace(p) ==
    /\ pc[p] = "invalidate"
    /\ CanLock
    /\ heap' = [heap EXCEPT ![item[p]].fillCalls = TRUE,
                            ![item[p]].value = Nil,
                            ![item[p]].closer = Nil]
    /\ pc' = [pc EXCEPT ![p] = "fill_load"]
    /\ UNCHANGED <<items, closerCalls, item, handle, released, fetched, stale>>
    /\ UNCHANGED purgeVars
    /\ UNCHANGED <<op, grp, key, cancel, doFn, inner, ret, called, via, early,
                   groups, calls, acceptedBy>>
    /\ UNCHANGED <<efVars, cacheVars, okVars>>

(* Lines 90-98: under the write lock, remove the invalid item if it is still
   the key's item, then close once (item.close, line 98); in both cases the
   loop starts again at line 40, where item is overwritten. *)
Invalidate(p) ==
    /\ pc[p] = "invalidate"
    /\ CanLock
    /\ IF ItemOf(CacheKey) # item[p]
       THEN UNCHANGED <<items, heap, closerCalls>>
       ELSE /\ items' = MapDelete(items, CacheKey)
            /\ ItemClose({item[p]})
    /\ pc' = [pc EXCEPT ![p] = "get_lookup"]
    /\ UNCHANGED <<item, handle, released, fetched, stale>>
    /\ UNCHANGED purgeVars
    /\ UNCHANGED <<op, grp, key, cancel, doFn, inner, ret, called, via, early,
                   groups, calls, acceptedBy>>
    /\ UNCHANGED <<efVars, cacheVars, okVars>>

(* The caller of Get calls the release callback it received. *)
Release(p) ==
    /\ pc[p] = "returned"
    /\ handle[p] # Nil
    /\ ~released[p]
    /\ ItemClose({handle[p]})
    /\ released' = [released EXCEPT ![p] = TRUE]
    /\ UNCHANGED <<items, item, handle, fetched, stale>>
    /\ UNCHANGED purgeVars
    /\ UNCHANGED callsVars
    /\ UNCHANGED <<efVars, cacheVars, okVars>>

-----------------------------------------------------------------------------
(* RefCache.Delete and RefCache.Purge *)

(* Lines 106-111: under the read lock, look the key up; Delete returns when
   it is absent. *)
CallDelete(p) ==
    /\ IsNext(p)
    /\ CanRLock
    /\ op' = [op EXCEPT ![p] = "Delete"]
    /\ pc' = [pc EXCEPT ![p] =
          IF ItemOf(CacheKey) = Nil THEN "returned" ELSE "delete_lock"]
    /\ UNCHANGED <<grp, key, cancel, doFn, inner, ret, called, via, early,
                   groups, calls, acceptedBy>>
    /\ UNCHANGED rcVars
    /\ UNCHANGED <<efVars, cacheVars, okVars>>

(* Lines 112-118: under the write lock, look the key up again and remove
   it. *)
DeleteLocked(p) ==
    /\ pc[p] = "delete_lock"
    /\ CanLock
    /\ item' = [item EXCEPT ![p] = ItemOf(CacheKey)]
    /\ items' = MapDelete(items, CacheKey)
    /\ pc' = [pc EXCEPT ![p] =
          IF ItemOf(CacheKey) = Nil THEN "returned" ELSE "delete_closer"]
    /\ UNCHANGED <<heap, closerCalls, handle, released, fetched, stale>>
    /\ UNCHANGED purgeVars
    /\ UNCHANGED <<op, grp, key, cancel, doFn, inner, ret, called, via, early,
                   groups, calls, acceptedBy>>
    /\ UNCHANGED <<efVars, cacheVars, okVars>>

(* Line 119: item.closer().  Calling the nil closer of an unfilled item
   panics. *)
DeleteCloser(p) ==
    /\ pc[p] = "delete_closer"
    /\ IF heap[item[p]].closer = Nil
       THEN /\ pc' = [pc EXCEPT ![p] = "panicked"]
            /\ closerCalls' = closerCalls
       ELSE /\ pc' = [pc EXCEPT ![p] = "returned"]
            /\ closerCalls' = [closerCalls EXCEPT ![item[p]] = @ + 1]
    /\ UNCHANGED <<items, heap, item, handle, released, fetched, stale>>
    /\ UNCHANGED purgeVars
    /\ UNCHANGED <<op, grp, key, cancel, doFn, inner, ret, called, via, early,
                   groups, calls, acceptedBy>>
    /\ UNCHANGED <<efVars, cacheVars, okVars>>

(* A Purge(nil) that closes the items and leaves them in the map. *)
CallPurgeKeepsMap(p) ==
    /\ IsNext(p)
    /\ CanLock
    /\ op' = [op EXCEPT ![p] = "Purge"]
    /\ items' = items
    /\ ItemClose({items[k] : k \in DOMAIN items})
    /\ pc' = [pc EXCEPT ![p] = "returned"]
    /\ UNCHANGED <<item, handle, released, fetched, stale>>
    /\ UNCHANGED purgeVars
    /\ UNCHANGED <<grp, key, cancel, doFn, inner, ret, called, via, early,
                   groups, calls, acceptedBy>>
    /\ UNCHANGED <<efVars, cacheVars, okVars>>

(* Purge(nil), lines 123-131: under the write lock, remove every item and
   close the map's reference on it. *)
CallPurge(p) ==
    /\ IsNext(p)
    /\ CanLock
    /\ op' = [op EXCEPT ![p] = "Purge"]
    /\ items' = <<>>
    /\ ItemClose({items[k] : k \in DOMAIN items})
    /\ pc' = [pc EXCEPT ![p] = "returned"]
    /\ UNCHANGED <<item, handle, released, fetched, stale>>
    /\ UNCHANGED purgeVars
    /\ UNCHANGED <<grp, key, cancel, doFn, inner, ret, called, via, early,
                   groups, calls, acceptedBy>>
    /\ UNCHANGED <<efVars, cacheVars, okVars>>

(* The values a fetch can produce. *)
Values == {Payload(p) : p \in Procs}

(* The keep predicates of the Purge calls, each given by the values it
   rejects: one keeps every value, one keeps none. *)
KeepFns == {{}, Values}

(* Purge(keep) with a keep, lines 133-155: under the read lock, which the
   deferred RUnlock keeps until Purge returns, collect the filled items that
   p.Valid rejects (line 146 calls p.Valid, not keep; the cache has a Valid),
   and return when there are none. *)
CallPurgeKeep(p) ==
    /\ IsNext(p)
    /\ CanRLock
    /\ op' = [op EXCEPT ![p] = "PurgeKeep"]
    /\ \E k \in KeepFns : keepFn' = [keepFn EXCEPT ![p] = k]
    /\ LET i == ItemOf(CacheKey)
       IN IF i # Nil /\ Filled(i)
          THEN \E rejects \in BOOLEAN :
                  /\ rejects => \/ heap[i].value \in stale
                                \/ Cardinality(stale) < MaxStale
                  /\ ~rejects => heap[i].value \notin stale
                  /\ stale' = IF rejects THEN stale \cup {heap[i].value}
                                         ELSE stale
                  /\ invalid' = [invalid EXCEPT ![p] =
                                    IF rejects THEN <<i>> ELSE <<>>]
          ELSE /\ stale' = stale
               /\ invalid' = [invalid EXCEPT ![p] = <<>>]
    /\ pc' = [pc EXCEPT ![p] =
          IF invalid'[p] = <<>> THEN "returned" ELSE "purge_lock"]
    /\ UNCHANGED <<items, heap, closerCalls, item, handle, released, fetched>>
    /\ UNCHANGED <<grp, key, cancel, doFn, inner, ret, called, via, early,
                   groups, calls, acceptedBy>>
    /\ UNCHANGED <<efVars, cacheVars, okVars>>

(* Line 157: p.mu.Lock() by the call that holds the read lock.  Lock waits
   for every reader to leave, this call included, so it never returns and
   lines 158-164 are never reached. *)
PurgeLock(p) ==
    /\ pc[p] = "purge_lock"
    /\ pc' = [pc EXCEPT ![p] = "purge_blocked"]
    /\ UNCHANGED <<op, grp, key, cancel, doFn, inner, ret, called, via, early,
                   groups, calls, acceptedBy>>
    /\ UNCHANGED rcVars
    /\ UNCHANGED <<efVars, cacheVars, okVars>>

-----------------------------------------------------------------------------
(* The RefCache used by concurrent callers *)

NextRefCache ==
    \/ \E p \in Procs : CallGet(p)
    \/ \E p \in Procs : GetLookup(p)
    \/ \E p \in Procs : GetCreate(p)
    \/ \E p \in Procs : FillLoad(p)
    \/ \E p \in Procs : FillDo(p)
    \/ \E p \in Procs : GetCancel(p)
    \/ \E p \in Procs : Park(p)
    \/ \E p \in Procs : SelectCancel(p)
    \/ \E p \in Procs : CancelLocked(p)
    \/ \E p \in Procs : SelectDone(p)
    \/ \E p \in Procs : SelectLeader(p)
    \/ \E p \in Procs : FillCallback(p)
    \/ \E p \in Procs : DeleteKey(p)
    \/ \E p \in Procs : CloseDone(p)
    \/ \E p \in Procs : FillReturn(p)
    \/ \E p \in Procs : GetPanic(p)
    \/ \E p \in Procs : Validate(p)
    \/ \E p \in Procs : Invalidate(p)
    \/ \E p \in Procs : Release(p)
    \/ \E p \in Procs : CallDelete(p)
    \/ \E p \in Procs : DeleteLocked(p)
    \/ \E p \in Procs : DeleteCloser(p)
    \/ \E p \in Procs : CallPurge(p)
    \/ \E p \in Procs : CallPurgeKeep(p)
    \/ \E p \in Procs : PurgeLock(p)

SpecRefCache == Init /\ [][NextRefCache]_vars

-----------------------------------------------------------------------------
(* ErrFuncs *)

(* The number of functions given to Add. *)
MaxFuncs == 2

(* The numbers of the functions given to Add; every spawn holds at least one
   of them, so these are the numbers of the spawns as well. *)
FuncIds == 1..MaxFuncs

(* The error values: a nil error, an error of the function, IgnoreResult,
   the error of the context (and what wraps it), the error that a Recover
   hook returns. *)
NilErr == "nil"
FnErr == "err"
IgnoreResult == "IgnoreResult"
CtxErr == "ctxErr"
RecErr == "recErr"

(* What a callback does: it returns one of these errors (the context's only
   when it was added with a context), or it panics.  A panic without a
   Recover hook ends the program and is left out. *)
FnReturns(f) ==
    IF f.ctx THEN {NilErr, FnErr, IgnoreResult, CtxErr}
             ELSE {NilErr, FnErr, IgnoreResult}

(* The settings of s.Ctx, s.Recover and s.Monitor (set or not) that the user
   chooses before an Add. *)
FuncConfigs == BOOLEAN \X BOOLEAN \X BOOLEAN

(* Add, lines 31-36: the parameters captured with a function, here whether
   s.Ctx, s.Recover and s.Monitor were set; the other fields follow the
   function's goroutine: where it is, the error it holds, how often fn, rec
   and mon were called, and the spawn that started it. *)
ErrFuncParams(c, r, m) ==
    [ctx |-> c, rec |-> r, mon |-> m,
     pc |-> "added", err |-> NilErr, fnCalls |-> 0, recCalls |-> 0,
     monCalls |-> 0, spawn |-> Nil]

(* Lines 85-93 and 150-155: a new spawnedErrFuncs with open channels, and the
   locals of its run: the four prev channels are non-nil exactly when there
   is a previous spawn. *)
NewSpawn(prev, fs) ==
    [prevSpawn |-> prev, funcs |-> fs, funcResults |-> <<>>,
     firstDone |-> FALSE, anyOK |-> FALSE, anyNot |-> FALSE, allDone |-> FALSE,
     firstResult |-> NilErr, firstError |-> NilErr,
     prevFirstDone |-> prev # Nil, prevAnyOK |-> prev # Nil,
     prevAnyNot |-> prev # Nil, prevAllDone |-> prev # Nil,
     seen |-> [first |-> FALSE, anyOK |-> FALSE, anyNot |-> FALSE],
     received |-> 0]

(* An onFirst without the test of seen.first. *)
OnFirstAgain(s, val) ==
    [s EXCEPT !.seen.first = TRUE, !.firstResult = val,
              !.prevFirstDone = FALSE, !.firstDone = TRUE]

(* onFirst, lines 157-165 *)
OnFirst(s, val) ==
    IF s.seen.first THEN s
    ELSE [s EXCEPT !.seen.first = TRUE, !.firstResult = val,
                   !.prevFirstDone = FALSE, !.firstDone = TRUE]

(* onAnyOK, lines 166-173 *)
OnAnyOK(s) ==
    IF s.seen.anyOK THEN s
    ELSE [s EXCEPT !.seen.anyOK = TRUE, !.prevAnyOK = FALSE, !.anyOK = TRUE]

(* onAnyNot, lines 174-182 *)
OnAnyNot(s, err) ==
    IF s.seen.anyNot THEN s
    ELSE [s EXCEPT !.seen.anyNot = TRUE, !.firstError = err,
                   !.prevAnyNot = FALSE, !.anyNot = TRUE]

(* Lines 193-197 and 200-204 *)
OnResult(s, res) == IF res = NilErr THEN OnAnyOK(s) ELSE OnAnyNot(s, res)

(* Lines 115-119: the result is replaced by IgnoreResult when the function
   has a context, the context is done and the error is the context's. *)
Ignored(f, err) ==
    IF f.ctx /\ err # IgnoreResult /\ ctxDone /\ err = CtxErr
    THEN IgnoreResult ELSE err

(* A monitor that is called for every result. *)
MonitoredAll(f, err) == IF f.mon THEN 1 ELSE 0

(* Lines 120-122: mon is called unless the result is IgnoreResult. *)
Monitored(f, err) == IF f.mon /\ err # IgnoreResult THEN 1 ELSE 0

(* Add with one function, after the user set or cleared s.Ctx, s.Recover and
   s.Monitor. *)
Add(c, r, m) ==
    /\ Len(funcs) < MaxFuncs
    /\ funcs' = Append(funcs, ErrFuncParams(c, r, m))
    /\ addedFuncs' = Append(addedFuncs, Len(funcs) + 1)
    /\ UNCHANGED <<lastSpawn, started, spawns, ctxDone>>
    /\ UNCHANGED <<callsVars, rcVars, cacheVars, okVars>>

(* A start that makes a new spawn at every call. *)
StartAlways ==
    /\ spawns' = Append(spawns, NewSpawn(lastSpawn, addedFuncs))
    /\ addedFuncs' = <<>>
    /\ lastSpawn' = Len(spawns) + 1
    /\ Len(spawns) < MaxFuncs
    /\ funcs' = [t \in DOMAIN funcs |->
          IF t \in Range(addedFuncs)
          THEN [funcs[t] EXCEPT !.pc = "fn", !.fnCalls = @ + 1,
                                !.spawn = Len(spawns) + 1]
          ELSE funcs[t]]
    /\ started' = [spawn |-> Len(spawns) + 1, preClosed |-> FALSE,
                   created |-> TRUE]
    /\ UNCHANGED ctxDone
    /\ UNCHANGED <<callsVars, rcVars, cacheVars, okVars>>

(* A start without the case of the empty group: it makes a spawn of no
   functions. *)
StartNoEmpty ==
    /\ IF lastSpawn # Nil /\ addedFuncs = <<>>
       THEN /\ started' = [spawn |-> lastSpawn, preClosed |-> FALSE,
                            created |-> FALSE]
            /\ UNCHANGED <<addedFuncs, lastSpawn, funcs, spawns>>
       ELSE /\ spawns' = Append(spawns, NewSpawn(lastSpawn, addedFuncs))
            /\ addedFuncs' = <<>>
            /\ lastSpawn' = Len(spawns) + 1
            /\ funcs' = [t \in DOMAIN funcs |->
                  IF t \in Range(addedFuncs)
                  THEN [funcs[t] EXCEPT !.pc = "fn", !.fnCalls = @ + 1,
                                        !.spawn = Len(spawns) + 1]
                  ELSE funcs[t]]
            /\ started' = [spawn |-> Len(spawns) + 1, preClosed |-> FALSE,
                            created |-> TRUE]
    /\ UNCHANGED ctxDone
    /\ UNCHANGED <<callsVars, rcVars, cacheVars, okVars>>

(* FirstDone, FirstOK, FirstError and AllDone: each calls start (lines
   73-128) and returns fields of the spawn that start returns.  Without a
   spawn and without added functions that is a new object with a closed
   allDone; without added functions it is the last spawn; otherwise a new
   spawn, whose run goroutine and function goroutines are started (lines
   97-125); each function goroutine calls fn.fn() (line 112). *)
Start ==
    /\ IF lastSpawn = Nil /\ addedFuncs = <<>>
       THEN /\ started' = [spawn |-> Nil, preClosed |-> TRUE, created |-> TRUE]
            /\ UNCHANGED <<addedFuncs, lastSpawn, funcs, spawns>>
       ELSE IF lastSpawn # Nil /\ addedFuncs = <<>>
       THEN /\ started' = [spawn |-> lastSpawn, preClosed |-> FALSE,
                            created |-> FALSE]
            /\ UNCHANGED <<addedFuncs, lastSpawn, funcs, spawns>>
       ELSE /\ spawns' = Append(spawns, NewSpawn(lastSpawn, addedFuncs))
            /\ addedFuncs' = <<>>
            /\ lastSpawn' = Len(spawns) + 1
            /\ funcs' = [t \in DOMAIN funcs |->
                  IF t \in Range(addedFuncs)
                  THEN [funcs[t] EXCEPT !.pc = "fn", !.fnCalls = @ + 1,
                                        !.spawn = Len(spawns) + 1]
                  ELSE funcs[t]]
            /\ started' = [spawn |-> Len(spawns) + 1, preClosed |-> FALSE,
                            created |-> TRUE]
    /\ UNCHANGED ctxDone
    /\ UNCHANGED <<callsVars, rcVars, cacheVars, okVars>>

(* The context that s.Ctx held is canceled. *)
CtxCancel ==
    /\ ~ctxDone
    /\ \E t \in DOMAIN funcs : funcs[t].ctx
    /\ ctxDone' = TRUE
    /\ UNCHANGED <<addedFuncs, lastSpawn, started, funcs, spawns>>
    /\ UNCHANGED <<callsVars, rcVars, cacheVars, okVars>>

(* Lines 112-123: fn.fn() returns err; the ignore rule, the monitor and the
   send to funcResults, whose capacity is the number of functions. *)
FnReturn(t) ==
    /\ t \in DOMAIN funcs
    /\ funcs[t].pc = "fn"
    /\ \E err \in FnReturns(funcs[t]) :
          LET res == Ignored(funcs[t], err)
          IN /\ funcs' = [funcs EXCEPT ![t].pc = "sent", ![t].err = res,
                            ![t].monCalls = @ + Monitored(funcs[t], res)]
             /\ spawns' = [spawns EXCEPT
                   ![funcs[t].spawn].funcResults = Append(@, res)]
    /\ UNCHANGED <<addedFuncs, lastSpawn, started, ctxDone>>
    /\ UNCHANGED <<callsVars, rcVars, cacheVars, okVars>>

(* Lines 104-112: fn.fn() panics and a Recover hook was captured.  The
   deferred function of lines 105-110 runs when the goroutine's function is
   left by the panic: it recovers, sets err = fn.rec(v), and the goroutine's
   function returns; lines 115-123 are not executed. *)
FnPanic(t) ==
    /\ t \in DOMAIN funcs
    /\ funcs[t].pc = "fn"
    /\ funcs[t].rec
    /\ funcs' = [funcs EXCEPT ![t].pc = "recovered", ![t].err = RecErr,
                              ![t].recCalls = @ + 1]
    /\ UNCHANGED <<addedFuncs, lastSpawn, started, spawns, ctxDone>>
    /\ UNCHANGED <<callsVars, rcVars, cacheVars, okVars>>

-----------------------------------------------------------------------------
(* spawnedErrFuncs.run *)

(* A loop that waits for the spawn's own functions only. *)
LoopingOwn(s) == s.received < Len(s.funcs)

(* Line 185: the condition of run's loop. *)
Looping(s) == s.received < Len(s.funcs) \/ s.prevAllDone

(* The run goroutine of spawn g is in its loop. *)
InLoop(g) ==
    g \in DOMAIN spawns /\ ~spawns[g].allDone /\ Looping(spawns[g])

(* Lines 187-197: a result is received from funcResults. *)
RunResult(g) ==
    /\ InLoop(g)
    /\ spawns[g].funcResults # <<>>
    /\ LET res == Head(spawns[g].funcResults)
           s == [spawns[g] EXCEPT !.funcResults = Tail(@),
                                  !.received = @ + 1]
       IN spawns' = [spawns EXCEPT ![g] =
             IF res = IgnoreResult THEN s ELSE OnResult(OnFirst(s, res), res)]
    /\ UNCHANGED <<addedFuncs, lastSpawn, started, funcs, ctxDone>>
    /\ UNCHANGED <<callsVars, rcVars, cacheVars, okVars>>

(* Lines 198-204: the previous spawn's firstDone is closed. *)
RunPrevFirstDone(g) ==
    /\ InLoop(g)
    /\ spawns[g].prevFirstDone
    /\ spawns[spawns[g].prevSpawn].firstDone
    /\ LET s == OnFirst(spawns[g], spawns[spawns[g].prevSpawn].firstResult)
       IN spawns' = [spawns EXCEPT ![g] = OnResult(s, s.firstResult)]
    /\ UNCHANGED <<addedFuncs, lastSpawn, started, funcs, ctxDone>>
    /\ UNCHANGED <<callsVars, rcVars, cacheVars, okVars>>

(* Lines 205-206: the previous spawn's anyOK is closed. *)
RunPrevAnyOK(g) ==
    /\ InLoop(g)
    /\ spawns[g].prevAnyOK
    /\ spawns[spawns[g].prevSpawn].anyOK
    /\ spawns' = [spawns EXCEPT ![g] = OnAnyOK(@)]
    /\ UNCHANGED <<addedFuncs, lastSpawn, started, funcs, ctxDone>>
    /\ UNCHANGED <<callsVars, rcVars, cacheVars, okVars>>

(* Lines 207-208: the previous spawn's anyNot is closed. *)
RunPrevAnyNot(g) ==
    /\ InLoop(g)
    /\ spawns[g].prevAnyNot
    /\ spawns[spawns[g].prevSpawn].anyNot
    /\ spawns' = [spawns EXCEPT ![g] =
          OnAnyNot(@, spawns[spawns[g].prevSpawn].firstError)]
    /\ UNCHANGED <<addedFuncs, lastSpawn, started, funcs, ctxDone>>
    /\ UNCHANGED <<callsVars, rcVars, cacheVars, okVars>>

(* Lines 209-210: the previous spawn's allDone is closed. *)
RunPrevAllDone(g) ==
    /\ InLoop(g)
    /\ spawns[g].prevAllDone
    /\ spawns[spawns[g].prevSpawn].allDone
    /\ spawns' = [spawns EXCEPT ![g].prevAllDone = FALSE]
    /\ UNCHANGED <<addedFuncs, lastSpawn, started, funcs, ctxDone>>
    /\ UNCHANGED <<callsVars, rcVars, cacheVars, okVars>>

(* Lines 185 and 213: the loop ends and allDone is closed. *)
RunAllDone(g) ==
    /\ g \in DOMAIN spawns
    /\ ~spawns[g].allDone
    /\ ~Looping(spawns[g])
    /\ spawns' = [spawns EXCEPT ![g].allDone = TRUE]
    /\ UNCHANGED <<addedFuncs, lastSpawn, started, funcs, ctxDone>>
    /\ UNCHANGED <<callsVars, rcVars, cacheVars, okVars>>

-----------------------------------------------------------------------------
(* An ErrFuncs used by one goroutine, its functions and its spawns *)

NextErrFuncs ==
    \/ \E f \in FuncConfigs : Add(f[1], f[2], f[3])
    \/ Start
    \/ CtxCancel
    \/ \E t \in FuncIds : FnReturn(t)
    \/ \E t \in FuncIds : FnPanic(t)
    \/ \E g \in FuncIds : RunResult(g)
    \/ \E g \in FuncIds : RunPrevFirstDone(g)
    \/ \E g \in FuncIds : RunPrevAnyOK(g)
    \/ \E g \in FuncIds : RunPrevAnyNot(g)
    \/ \E g \in FuncIds : RunPrevAllDone(g)
    \/ \E g \in FuncIds : RunAllDone(g)

SpecErrFuncs == Init /\ [][NextErrFuncs]_vars

(* The steps of the goroutines: of function t, and of spawn g's run. *)
FnStep(t) == FnReturn(t)

RunStep(g) ==
    \/ RunResult(g) \/ RunPrevFirstDone(g) \/ RunPrevAnyOK(g)
    \/ RunPrevAnyNot(g) \/ RunPrevAllDone(g) \/ RunAllDone(g)

(* Every started goroutine is scheduled again and again, and a callback that
   was called returns. *)
FairErrFuncs ==
    /\ SpecErrFuncs
    /\ \A t \in FuncIds : WF_vars(FnStep(t))
    /\ \A g \in FuncIds : WF_vars(RunStep(g))

-----------------------------------------------------------------------------
(* Cache *)

(* The key of the Cache entry that the callers use. *)
GetKey == ""

(* val, ok := p.values[key] *)
Stored(k) == k \in DOMAIN values

(* Lines 133-138 of Get: under the read lock, a stored value ends Get with
   (val, Shared); otherwise Get goes on to p.callgroup.Do. *)
CallCacheGet(p) ==
    /\ IsNext(p)
    /\ op' = [op EXCEPT ![p] = "CacheGet"]
    /\ startGen' = [startGen EXCEPT ![p] = removals]
    /\ IF Stored(GetKey)
       THEN /\ ret' = [ret EXCEPT ![p] = Ret(values[GetKey], Shared)]
            /\ pc' = [pc EXCEPT ![p] = "returned"]
       ELSE /\ ret' = ret
            /\ pc' = [pc EXCEPT ![p] = "cache_do"]
    /\ UNCHANGED <<values, removals, builtAt>>
    /\ UNCHANGED <<grp, key, cancel, doFn, inner, called, via, early, groups,
                   calls, acceptedBy>>
    /\ UNCHANGED <<rcVars, efVars, okVars>>

(* Line 140: p.callgroup.Do(key, cancel, ...), up to Do's line 31. *)
CacheDo(p) ==
    /\ pc[p] = "cache_do"
    /\ Register(p, CacheCalls, GetKey)
    /\ UNCHANGED <<op, cancel, doFn, ret, called, via, early>>
    /\ UNCHANGED <<rcVars, efVars, cacheVars, okVars>>

(* The cancel channel a caller passed to Cache.Get is closed while the caller
   is in Do's select. *)
CacheCancel(p) ==
    /\ op[p] = "CacheGet"
    /\ Cardinality({q \in Procs : cancel[q] = "closed"}) < MaxCancels
    /\ FireCancel(p)

(* Lines 140-158, the callback that Do invokes for the leader: a value stored
   meanwhile is returned with accept = true; otherwise get() is called, and it
   returns a value with accept = true, which is stored under the write lock
   and returned, or a value with accept = false, or it panics.  No other step
   writes p.values[key] between the check of line 142 and the store of line
   155 except a removal, which finds nothing to remove. *)
CacheCallback(p) ==
    /\ pc[p] = "callback"
    /\ op[p] = "CacheGet"
    /\ IF Stored(GetKey)
       THEN /\ DoAccept(p, values[GetKey])
            /\ UNCHANGED <<doFn, values, builtAt>>
       ELSE /\ builtAt' = [builtAt EXCEPT ![p] = removals]
            /\ \E f \in {"accept", "reject", "panic"} :
                  /\ doFn' = [doFn EXCEPT ![p] = f]
                  /\ CASE f = "accept" ->
                            /\ values' = MapPut(values, GetKey, Payload(p))
                            /\ DoAccept(p, Payload(p))
                       [] f = "reject" -> DoReject(p) /\ values' = values
                       [] OTHER -> DoPanic(p) /\ values' = values
    /\ UNCHANGED <<removals, startGen>>
    /\ UNCHANGED <<op, grp, key, cancel, inner, early, groups>>
    /\ UNCHANGED <<rcVars, efVars, okVars>>

(* delete(p.values, key), and the count of the values removed. *)
Remove(k) ==
    /\ values' = MapDelete(values, k)
    /\ removals' = removals + (IF Stored(k) THEN 1 ELSE 0)

(* Cache.Delete, lines 163-167. *)
CacheDelete(p) ==
    /\ IsNext(p)
    /\ op' = [op EXCEPT ![p] = "CacheDelete"]
    /\ Remove(GetKey)
    /\ pc' = [pc EXCEPT ![p] = "returned"]
    /\ UNCHANGED <<startGen, builtAt>>
    /\ UNCHANGED <<grp, key, cancel, doFn, inner, ret, called, via, early,
                   groups, calls, acceptedBy>>
    /\ UNCHANGED <<rcVars, efVars, okVars>>

(* Cache.DeleteUnless, lines 171-177: under the write lock, remove the key's
   value when there is one and keep returns false for it. *)
CacheDeleteUnless(p) ==
    /\ IsNext(p)
    /\ op' = [op EXCEPT ![p] = "CacheDeleteUnless"]
    /\ IF Stored(GetKey)
       THEN \E keep \in BOOLEAN :
               IF keep THEN UNCHANGED <<values, removals>> ELSE Remove(GetKey)
       ELSE UNCHANGED <<values, removals>>
    /\ pc' = [pc EXCEPT ![p] = "returned"]
    /\ UNCHANGED <<startGen, builtAt>>
    /\ UNCHANGED <<grp, key, cancel, doFn, inner, ret, called, via, early,
                   groups, calls, acceptedBy>>
    /\ UNCHANGED <<rcVars, efVars, okVars>>

(* Cache.Purge, lines 181-189: under the write lock, remove every value for
   which keep returns false. *)
CachePurge(p) ==
    /\ IsNext(p)
    /\ op' = [op EXCEPT ![p] = "CachePurge"]
    /\ \E kept \in SUBSET DOMAIN values :
          /\ values' = [k \in kept |-> values[k]]
          /\ removals' = removals + Cardinality(DOMAIN values \ kept)
    /\ pc' = [pc EXCEPT ![p] = "returned"]
    /\ UNCHANGED <<startGen, builtAt>>
    /\ UNCHANGED <<grp, key, cancel, doFn, inner, ret, called, via, early,
                   groups, calls, acceptedBy>>
    /\ UNCHANGED <<rcVars, efVars, okVars>>

(* The Cache used by concurrent callers *)
NextCache ==
    \/ \E p \in Procs : CallCacheGet(p)
    \/ \E p \in Procs : CacheDo(p)
    \/ \E p \in Procs : CacheCancel(p)
    \/ \E p \in Procs : Park(p)
    \/ \E p \in Procs : SelectCancel(p)
    \/ \E p \in Procs : CancelLocked(p)
    \/ \E p \in Procs : SelectDone(p)
    \/ \E p \in Procs : SelectLeader(p)
    \/ \E p \in Procs : CacheCallback(p)
    \/ \E p \in Procs : DeleteKey(p)
    \/ \E p \in Procs : CloseDone(p)
    \/ \E p \in Procs : CacheDelete(p)
    \/ \E p \in Procs : CacheDeleteUnless(p)
    \/ \E p \in Procs : CachePurge(p)

SpecCache == Init /\ [][NextCache]_vars

-----------------------------------------------------------------------------
(* WaitOKGroup *)

(* The number of functions given to Add. *)
MaxOKFuncs == 2

OKIds == 1..MaxOKFuncs

(* Add, lines 15-19: the function with the Recover hook captured, here
   whether s.Recover was set; the other fields follow the function's
   goroutine: where it is, what fn returned, how often rec was called, and
   the spawn that started it. *)
WaitOKParams(r) ==
    [rec |-> r, pc |-> "added", ok |-> FALSE, recCalls |-> 0, spawn |-> Nil]

(* Lines 62-70 and 115-120: a new spawnedOKGroup with open channels, zero
   firstResult and aggResult, and the locals of its run: the four prev
   channels are non-nil exactly when there is a previous spawn. *)
NewOKSpawn(prev, fs) ==
    [prev |-> prev, funcs |-> fs, funcResults |-> <<>>,
     firstDone |-> FALSE, anyOK |-> FALSE, anyNot |-> FALSE, allDone |-> FALSE,
     firstResult |-> FALSE,
     aggResult |-> [anyOK |-> FALSE, anyNot |-> FALSE],
     prevFirstDone |-> prev # Nil, prevAnyOK |-> prev # Nil,
     prevAnyNot |-> prev # Nil, prevAllDone |-> prev # Nil,
     seen |-> [first |-> FALSE, anyOK |-> FALSE, anyNot |-> FALSE],
     received |-> 0]

(* onFirst, lines 122-127.  close(s.firstDone) on a closed channel panics:
   every call of onFirst is made with seen.first unset (lines 150 and 172
   test it, and prevFirstDone is nil once it is set). *)
OKOnFirst(s, val) ==
    [s EXCEPT !.seen.first = TRUE, !.prevFirstDone = FALSE,
              !.firstResult = val, !.firstDone = TRUE]

(* onAnyOK, lines 128-135 *)
OKOnAnyOK(s) ==
    IF s.seen.anyOK THEN s
    ELSE [s EXCEPT !.prevAnyOK = FALSE, !.seen.anyOK = TRUE, !.anyOK = TRUE]

(* onAnyNot, lines 136-143 *)
OKOnAnyNot(s) ==
    IF s.seen.anyNot THEN s
    ELSE [s EXCEPT !.prevAnyNot = FALSE, !.seen.anyNot = TRUE, !.anyNot = TRUE]

(* Lines 153-158 and 161-165 *)
OKOnResult(s, res) == IF res THEN OKOnAnyOK(s) ELSE OKOnAnyNot(s)

(* Add with one function, after the user set or cleared s.Recover. *)
OKAdd(r) ==
    /\ Len(okParams) < MaxOKFuncs
    /\ okParams' = Append(okParams, WaitOKParams(r))
    /\ okFuncs' = Append(okFuncs, Len(okParams) + 1)
    /\ UNCHANGED <<okLast, okStarted, okSpawns>>
    /\ UNCHANGED <<callsVars, rcVars, efVars, cacheVars>>

(* FirstDone, FirstOK, FirstNot and AllDone: each calls start (lines 51-96)
   and returns fields of the spawn that start returns.  Without added
   functions that is the last spawn, or without one a new object with a
   closed allDone; otherwise a new spawn, whose run goroutine and function
   goroutines are started (lines 74-94); each function goroutine calls
   params.fn() (line 88). *)
OKStart ==
    /\ IF okFuncs = <<>>
       THEN /\ okStarted' = [spawn |-> okLast, preClosed |-> okLast = Nil]
            /\ UNCHANGED <<okFuncs, okLast, okParams, okSpawns>>
       ELSE /\ okSpawns' = Append(okSpawns, NewOKSpawn(okLast, okFuncs))
            /\ okFuncs' = <<>>
            /\ okLast' = Len(okSpawns) + 1
            /\ okParams' = [t \in DOMAIN okParams |->
                  IF t \in Range(okFuncs)
                  THEN [okParams[t] EXCEPT !.pc = "fn",
                                           !.spawn = Len(okSpawns) + 1]
                  ELSE okParams[t]]
            /\ okStarted' = [spawn |-> Len(okSpawns) + 1, preClosed |-> FALSE]
    /\ UNCHANGED <<callsVars, rcVars, efVars, cacheVars>>

(* Lines 88-91: params.fn() returns ok, which is sent to funcResults, whose
   capacity is the number of functions. *)
OKFnReturn(t) ==
    /\ t \in DOMAIN okParams
    /\ okParams[t].pc = "fn"
    /\ \E ok \in BOOLEAN :
          /\ okParams' = [okParams EXCEPT ![t].pc = "sent", ![t].ok = ok]
          /\ okSpawns' = [okSpawns EXCEPT
                ![okParams[t].spawn].funcResults = Append(@, ok)]
    /\ UNCHANGED <<okFuncs, okLast, okStarted>>
    /\ UNCHANGED <<callsVars, rcVars, efVars, cacheVars>>

(* Lines 80-88: params.fn() panics and a Recover hook was captured.  The
   deferred function recovers and calls params.rec(v); the goroutine's
   function is left by the panic, so that line 91 is not reached and nothing
   is sent to funcResults. *)
OKFnPanic(t) ==
    /\ t \in DOMAIN okParams
    /\ okParams[t].pc = "fn"
    /\ okParams[t].rec
    /\ okParams' = [okParams EXCEPT ![t].pc = "recovered",
                                    ![t].recCalls = @ + 1]
    /\ UNCHANGED <<okFuncs, okLast, okStarted, okSpawns>>
    /\ UNCHANGED <<callsVars, rcVars, efVars, cacheVars>>

(* Line 146: the condition of run's loop. *)
OKLooping(s) == s.received < Len(s.funcs) \/ s.prevAllDone

(* The run goroutine of spawn g is in its loop. *)
OKInLoop(g) ==
    g \in DOMAIN okSpawns /\ ~okSpawns[g].allDone /\ OKLooping(okSpawns[g])

(* Lines 148-158: a result is received from funcResults. *)
OKRunResult(g) ==
    /\ OKInLoop(g)
    /\ okSpawns[g].funcResults # <<>>
    /\ LET res == Head(okSpawns[g].funcResults)
           s == [okSpawns[g] EXCEPT !.funcResults = Tail(@),
                                    !.received = @ + 1]
       IN okSpawns' = [okSpawns EXCEPT ![g] =
             OKOnResult(IF s.seen.first THEN s ELSE OKOnFirst(s, res), res)]
    /\ UNCHANGED <<okFuncs, okLast, okStarted, okParams>>
    /\ UNCHANGED <<callsVars, rcVars, efVars, cacheVars>>

(* Lines 159-165: the previous spawn's firstDone is closed. *)
OKRunPrevFirstDone(g) ==
    /\ OKInLoop(g)
    /\ okSpawns[g].prevFirstDone
    /\ okSpawns[okSpawns[g].prev].firstDone
    /\ LET s == OKOnFirst(okSpawns[g], okSpawns[okSpawns[g].prev].firstResult)
       IN okSpawns' = [okSpawns EXCEPT ![g] = OKOnResult(s, s.firstResult)]
    /\ UNCHANGED <<okFuncs, okLast, okStarted, okParams>>
    /\ UNCHANGED <<callsVars, rcVars, efVars, cacheVars>>

(* Lines 166-167: the previous spawn's anyOK is closed. *)
OKRunPrevAnyOK(g) ==
    /\ OKInLoop(g)
    /\ okSpawns[g].prevAnyOK
    /\ okSpawns[okSpawns[g].prev].anyOK
    /\ okSpawns' = [okSpawns EXCEPT ![g] = OKOnAnyOK(@)]
    /\ UNCHANGED <<okFuncs, okLast, okStarted, okParams>>
    /\ UNCHANGED <<callsVars, rcVars, efVars, cacheVars>>

(* Lines 168-169: the previous spawn's anyNot is closed. *)
OKRunPrevAnyNot(g) ==
    /\ OKInLoop(g)
    /\ okSpawns[g].prevAnyNot
    /\ okSpawns[okSpawns[g].prev].anyNot
    /\ okSpawns' = [okSpawns EXCEPT ![g] = OKOnAnyNot(@)]
    /\ UNCHANGED <<okFuncs, okLast, okStarted, okParams>>
    /\ UNCHANGED <<callsVars, rcVars, efVars, cacheVars>>

(* Lines 170-180: the previous spawn's allDone is closed; its firstResult and
   its aggResult are read. *)
OKRunPrevAllDone(g) ==
    /\ OKInLoop(g)
    /\ okSpawns[g].prevAllDone
    /\ okSpawns[okSpawns[g].prev].allDone
    /\ LET prev == okSpawns[okSpawns[g].prev]
           s0 == [okSpawns[g] EXCEPT !.prevAllDone = FALSE]
           s1 == IF s0.seen.first THEN s0 ELSE OKOnFirst(s0, prev.firstResult)
           s2 == IF prev.aggResult.anyOK THEN OKOnAnyOK(s1) ELSE s1
           s3 == IF prev.aggResult.anyNot THEN OKOnAnyNot(s2) ELSE s2
       IN okSpawns' = [okSpawns EXCEPT ![g] = s3]
    /\ UNCHANGED <<okFuncs, okLast, okStarted, okParams>>
    /\ UNCHANGED <<callsVars, rcVars, efVars, cacheVars>>

(* Lines 146 and 183: the loop ends and allDone is closed. *)
OKRunAllDone(g) ==
    /\ g \in DOMAIN okSpawns
    /\ ~okSpawns[g].allDone
    /\ ~OKLooping(okSpawns[g])
    /\ okSpawns' = [okSpawns EXCEPT ![g].allDone = TRUE]
    /\ UNCHANGED <<okFuncs, okLast, okStarted, okParams>>
    /\ UNCHANGED <<callsVars, rcVars, efVars, cacheVars>>

(* A WaitOKGroup used by one goroutine, its functions and its spawns *)
NextWaitOK ==
    \/ \E r \in BOOLEAN : OKAdd(r)
    \/ OKStart
    \/ \E t \in OKIds : OKFnReturn(t)
    \/ \E t \in OKIds : OKFnPanic(t)
    \/ \E g \in OKIds : OKRunResult(g)
    \/ \E g \in OKIds : OKRunPrevFirstDone(g)
    \/ \E g \in OKIds : OKRunPrevAnyOK(g)
    \/ \E g \in OKIds : OKRunPrevAnyNot(g)
    \/ \E g \in OKIds : OKRunPrevAllDone(g)
    \/ \E g \in OKIds : OKRunAllDone(g)

SpecWaitOK == Init /\ [][NextWaitOK]_vars

-----------------------------------------------------------------------------
(* Properties of Calls.Do *)

(* The direct callers of Do. *)
Callers == {p \in Procs : op[p] = "Do"}

(* The callers whose Do has not ended. *)
Active == {p \in Procs : pc[p] \notin {"idle", "returned", "panicked"}}

(* The callers waiting in the select. *)
Waiting == {p \in Procs : pc[p] \in {"select", "parked"}}

(* The callers that registered on call state c. *)
Regs(c) == {p \in Procs : pc[p] # "idle" /\ inner[p] = c}

(* The call states created so far. *)
CallStates == 1..Len(calls)

(* The key of a call state of the user's Calls object. *)
KeyOf(c) == key[CHOOSE p \in Regs(c) : TRUE]

(* The callers whose callback is executing for key k. *)
Executing(k) == {p \in Callers : pc[p] = "callback" /\ key[p] = k}

(* The call states of key k that are in the index or have not accepted. *)
Current(k) ==
    {c \in CallStates :
        KeyOf(c) = k /\ (Lookup(UserCalls, k) = c \/ ~Accepted(c))}

(* C1: for every key, at most one callback is executing at any instant, and
   at most one call state of the key is in the index or still able to run a
   callback (every other call state of the key has accepted and is retired). *)
C1_OneCallbackPerKey ==
    \A k \in Keys :
        /\ Cardinality(Executing(k)) <= 1
        /\ Cardinality(Current(k)) <= 1

(* Two callers wait on the same key while a third runs its callback. *)
C1_Witness ==
    \E p, q, r \in Callers :
        /\ p # q /\ p # r /\ q # r
        /\ key[p] = key[q] /\ key[q] = key[r]
        /\ pc[p] = "callback" /\ pc[q] = "parked" /\ pc[r] = "select"
        /\ called[q] = 0 /\ called[r] = 0

(* Every caller of call state c returned, none saw its cancel signal fire,
   and every callback that was invoked accepted. *)
AllAccepting(c) ==
    /\ Regs(c) # {}
    /\ \A p \in Regs(c) :
          /\ pc[p] = "returned"
          /\ cancel[p] = "open"
          /\ doFn[p] \in {"none", "accept"}

(* C2: N concurrent callers of one key (registered on one call state), no
   cancel signal, accepting callbacks: the callback body ran exactly once in
   total; with N = 1 the caller received Exclusive, with N > 1 every caller
   received Shared, and all received the identical value, the leader's. *)
C2_SingleExecution ==
    \A c \in CallStates :
        AllAccepting(c) =>
            /\ Cardinality({p \in Regs(c) : called[p] = 1}) = 1
            /\ \A p \in Regs(c) : called[p] <= 1
            /\ Cardinality(Regs(c)) = 1 =>
                  \A p \in Regs(c) : ret[p] = Ret(Payload(p), Exclusive)
            /\ Cardinality(Regs(c)) > 1 =>
                  \A p \in Regs(c) :
                      ret[p] = Ret(Payload(acceptedBy[c]), Shared)

(* One call state with a single caller that got Exclusive, another with
   two callers that both got Shared. *)
C2_Witness ==
    \E c, d \in CallStates :
        /\ AllAccepting(c) /\ Cardinality(Regs(c)) = 1
        /\ AllAccepting(d) /\ Cardinality(Regs(d)) = 2
        /\ \A p \in Regs(d) : ret[p].status = Shared

(* C3: a call that returned Exclusive or Shared returned the value that the
   accepting leader of its call state stored; a call that returned Canceled
   returned nil. *)
C3_ConsistentResult ==
    \A p \in Callers :
        pc[p] = "returned" =>
            IF ret[p].status = Canceled
            THEN ret[p].val = Nil
            ELSE /\ ret[p].status \in {Exclusive, Shared}
                 /\ Accepted(inner[p])
                 /\ ret[p].val = Payload(acceptedBy[inner[p]])

(* A caller took the cancel case while the leader was accepting and came
   back with the leader's value; another caller of the same call state took
   the cancel case earlier and came back with nil. *)
C3_Witness ==
    \E p, q \in Callers :
        /\ inner[p] = inner[q]
        /\ pc[p] = "returned" /\ via[p] = "cancel" /\ ret[p].status = Shared
        /\ ret[p].val = Payload(acceptedBy[inner[p]])
        /\ pc[q] = "returned" /\ via[q] = "cancel" /\ ret[q] = Ret(Nil, Canceled)

(* C4 as stated: a caller whose cancel signal fired before any leader of its
   call state accepted receives Canceled and never runs its callback. *)
C4_EarlyCancelIsCanceled ==
    \A p \in Callers :
        (early[p] /\ pc[p] = "returned") =>
            (ret[p].status = Canceled /\ called[p] = 0)

(* C4 amended: a caller whose select takes the cancel case never runs its
   callback; when it re-checks under the lock it returns Canceled with nil
   whenever no leader has accepted by then, and otherwise either Canceled with
   nil or the accepted value with Shared. *)
C4_CancelCase ==
    [][\A p \in Callers :
          (pc[p] = "cancel_lock" /\ pc'[p] = "returned") =>
              /\ called'[p] = 0
              /\ ~Accepted(inner[p]) => ret'[p] = Ret(Nil, Canceled)
              /\ \/ ret'[p] = Ret(Nil, Canceled)
                 \/ /\ Accepted(inner[p])
                    /\ ret'[p] = Ret(Payload(acceptedBy[inner[p]]), Shared)]_vars

(* Both outcomes of the cancel case happened, the Canceled one for a signal
   that fired before acceptance. *)
C4_Witness ==
    \E p, q \in Callers :
        /\ pc[p] = "returned" /\ via[p] = "cancel" /\ early[p]
        /\ ret[p] = Ret(Nil, Canceled)
        /\ pc[q] = "returned" /\ via[q] = "cancel" /\ ret[q].status = Shared

(* The send of p's token on the leader channel completed in this step: the
   token is in the buffer, or the caller that was blocked in the select for
   longest received it and leads. *)
TokenBack(p) ==
    LET c == inner[p]
    IN IF calls[c].recvq = <<>>
       THEN calls'[c].leader = 1 /\ \A q \in Procs \ {p} : pc'[q] = pc[q]
       ELSE /\ calls'[c].leader = 0
            /\ pc'[Head(calls[c].recvq)] = "callback"
            /\ called'[Head(calls[c].recvq)] = 1
            /\ cancel[Head(calls[c].recvq)] = "open"

(* The payloads of the callbacks that rejected. *)
RejectedPayloads == {Payload(p) : p \in {q \in Callers : doFn[q] = "reject"}}

(* C5: when a leader's callback returns accept = false, the call state stays
   in the index with done open, the token is back in the leader channel, the
   rejecting caller returns (nil, Canceled), and no Do call ever returns a
   rejected payload. *)
C5_Rejection ==
    [][/\ \A p \in Callers :
            (pc[p] = "callback" /\ doFn'[p] = "reject") =>
                /\ Lookup(UserCalls, key[p])' = inner[p]
                /\ ~calls'[inner[p]].done
                /\ TokenBack(p)
                /\ ~Accepted(inner[p])'
                /\ pc'[p] = "returned"
                /\ ret'[p] = Ret(Nil, Canceled)
       /\ \A q \in Procs : ret'[q].val \notin RejectedPayloads']_vars

(* A leader rejected, and a later leader of the same call state accepted and
   a third caller received the accepted value. *)
C5_Witness ==
    \E p, q, r \in Callers :
        /\ inner[p] = inner[q] /\ inner[q] = inner[r]
        /\ doFn[p] = "reject" /\ pc[p] = "returned"
        /\ doFn[q] = "accept" /\ pc[q] = "returned"
        /\ r # q /\ pc[r] = "returned" /\ ret[r] = Ret(Payload(q), Shared)

(* C6: when a leader's callback rejects or panics while callers are blocked
   in the select on the same call state, the one blocked for longest becomes
   leader and runs its callback; and under fair scheduling, once some callback
   of a call state has accepted, every caller waiting on it whose cancel
   signal never fires eventually returns the accepted value with Shared. *)
C6_RetryAndDelivery ==
    /\ [][\A p \in Callers :
             (/\ pc[p] = "callback"
              /\ doFn'[p] \in {"reject", "panic"}
              /\ calls[inner[p]].recvq # <<>>) =>
                 \E q \in Range(calls[inner[p]].recvq) :
                     /\ cancel[q] = "open"
                     /\ called[q] = 0
                     /\ pc'[q] = "callback"
                     /\ called'[q] = 1]_vars
    /\ \A q \in Procs :
          (q \in Callers /\ q \in Waiting /\ Accepted(inner[q]))
              ~> \/ cancel[q] = "closed"
                 \/ /\ pc[q] = "returned"
                    /\ ret[q] = Ret(Payload(acceptedBy[inner[q]]), Shared)

(* A leader rejected and the next one panicked while callers were blocked
   behind them: each time the token went to a blocked caller, and the third
   caller led and accepted. *)
C6_Witness ==
    \E p, q, r \in Callers :
        /\ inner[p] = inner[q] /\ inner[q] = inner[r]
        /\ doFn[p] = "reject" /\ doFn[q] = "panic" /\ doFn[r] = "accept"
        /\ via[q] = "handoff" /\ via[r] = "handoff"
        /\ pc[r] = "returned" /\ cancel[r] = "open"

(* C7: when the leader's callback panics, the token is back in the leader
   channel, the key is not retired, no result is stored or broadcast, and the
   leading caller's Do does not return: the panic leaves it. *)
C7_Panic ==
    [][\A p \in Callers :
          (pc[p] = "callback" /\ doFn'[p] = "panic") =>
              /\ TokenBack(p)
              /\ Lookup(UserCalls, key[p])' = inner[p]
              /\ ~calls'[inner[p]].done
              /\ calls'[inner[p]].result = Nil
              /\ ~Accepted(inner[p])'
              /\ pc'[p] = "panicked"
              /\ ret'[p] = NoRet]_vars

(* A leader panicked and a waiting caller of the same call state led next. *)
C7_Witness ==
    \E p, q \in Callers :
        /\ inner[p] = inner[q]
        /\ pc[p] = "panicked" /\ doFn[p] = "panic"
        /\ pc[q] = "callback" /\ calls[inner[q]].leader = 0
        /\ calls[inner[q]].recvq # <<>>

(* C8 as stated: while a call state is in the index, its monitors field is
   the number of Do calls registered on it that have not returned. *)
C8_MonitorsCountsRegistered ==
    \A k \in Keys :
        Lookup(UserCalls, k) # Nil =>
            calls[Lookup(UserCalls, k)].monitors =
                Cardinality(Regs(Lookup(UserCalls, k)) \cap Active)

-----------------------------------------------------------------------------
(* Properties of RefCache *)

(* The callers that hold an unreleased release callback of item i. *)
Holders(i) == {p \in Procs : handle[p] = i /\ ~released[p]}

(* The callers that received a release callback of item i. *)
Got(i) == {p \in Procs : handle[p] = i}

(* Caller p calls its release callback in this step. *)
Releasing(p) == ~released[p] /\ released'[p]

(* C9 as stated: of the K release calls of an item's K holders, the K-th and
   only the K-th invokes the item's releaser. *)
C9_LastReleaseInvokes ==
    [][\A p \in Procs : Releasing(p) =>
          LET i == handle[p]
          IN closerCalls'[i] = closerCalls[i] + (IF Holders(i) = {p} THEN 1 ELSE 0)
      ]_vars

(* C9: the K release calls of an item's K holders invoke the item's releaser
   at most once and never before the K-th call; a release call invokes it
   exactly when it brings the item's reference count to 0, which it cannot do
   while the item is in the index or another holder is left. *)
C9_ReleaseAtZero ==
    /\ [][\A p \in Procs : Releasing(p) =>
            LET i == handle[p]
            IN /\ heap'[i].refs = heap[i].refs - 1
               /\ closerCalls'[i] =
                     closerCalls[i] + (IF heap[i].refs = 1 THEN 1 ELSE 0)
               /\ Holders(i) # {p} => closerCalls'[i] = closerCalls[i]
               /\ ItemOf(CacheKey) = i => closerCalls'[i] = closerCalls[i]
               /\ closerCalls'[i] <= 1
        ]_vars
    /\ [](\A i \in DOMAIN heap :
            heap[i].refs >= Cardinality(Holders(i))
                            + (IF ItemOf(CacheKey) = i THEN 1 ELSE 0))

(* Two holders of an item that left the index have both released, and the
   second release invoked the releaser. *)
C9_Witness ==
    \E i \in DOMAIN heap :
        /\ Cardinality(Got(i)) = 2
        /\ Holders(i) = {}
        /\ heap[i].refs = 0
        /\ closerCalls[i] = 1
        /\ \A p \in Procs : op[p] # "Delete"

(* C10 as stated: Delete does not invoke the item's releaser while a caller
   holds an unreleased release callback of the item. *)
C10_DeleteDefersReleaser ==
    [][\A p \in Procs : (pc[p] = "delete_closer" /\ pc'[p] # pc[p]) =>
          (Holders(item[p]) # {} =>
              closerCalls'[item[p]] = closerCalls[item[p]])
      ]_vars

(* The Get calls whose fetch filled item i. *)
Fillers(i) == {p \in Procs : op[p] = "Get" /\ doFn[p] = "accept" /\ item[p] = i}

(* C11: a Valid rejection replaces the item and never mutates it: a filled
   item keeps its value and closer for ever, the rejecting Get takes the item
   out of the index so that the value it fetches next goes into a new item,
   every item is filled by at most one fetch and a Get call fetches at most
   once, every holder's value is its item's value, and no step of a Get other
   than a release invokes the releaser of an item that has a holder. *)
C11_InvalidationReplaces ==
    /\ [][/\ \A i \in DOMAIN heap : Filled(i) =>
                /\ Filled(i)'
                /\ heap'[i].value = heap[i].value
                /\ heap'[i].closer = heap[i].closer
          /\ \A p \in Procs : (pc[p] = "invalidate" /\ pc'[p] # pc[p]) =>
                /\ ItemOf(CacheKey)' # item[p]
                /\ pc'[p] = "get_lookup"
                /\ closerCalls' = closerCalls
          /\ \A i \in DOMAIN heap :
                (Holders(i) # {} /\ closerCalls'[i] # closerCalls[i]) =>
                   \E p \in Procs : \/ Releasing(p)
                                    \/ pc[p] = "delete_closer" /\ pc'[p] # pc[p]
          /\ (ItemOf(CacheKey)' # ItemOf(CacheKey) /\ ItemOf(CacheKey)' # Nil) =>
                /\ ItemOf(CacheKey)' = Len(heap) + 1
                /\ heap'[ItemOf(CacheKey)'] = [NewItem EXCEPT !.refs = 2]
        ]_vars
    /\ [](\A i \in DOMAIN heap :
             Cardinality(Fillers(i)) = (IF Filled(i) THEN 1 ELSE 0))
    /\ [](\A p \in Procs : op[p] = "Get" => fetched[p] <= 1)
    /\ [](\A p \in Procs : handle[p] # Nil =>
             ret[p] = Ret(heap[handle[p]].value, "Get"))

(* A Get has replaced a rejected item whose holder has not released: the
   holder still has the old value, the old releaser was not invoked, and the
   new item holds the freshly fetched value. *)
C11_Witness ==
    \E i, j \in DOMAIN heap : \E p, q \in Procs :
        /\ i < j
        /\ heap[i].value \in stale
        /\ q \in Holders(i)
        /\ ret[q].val = heap[i].value
        /\ closerCalls[i] = 0
        /\ ItemOf(CacheKey) = j
        /\ p \in Holders(j)
        /\ Fillers(j) = {p}
        /\ fetched[p] = 1
        /\ heap[j].value # heap[i].value

(* No call is at work on item i: no Get or Delete that has not ended has i in
   its local variable item, and every release callback of i was called. *)
Drained(i) ==
    /\ Holders(i) = {}
    /\ \A p \in Procs : item[p] = i => pc[p] \in {"returned", "panicked"}

(* C12 as stated, for the items removed by a Valid rejection or by Purge: a
   filled item that left the index and whose release callbacks were all
   called has had its releaser invoked exactly once. *)
C12_RemovedItemReleased ==
    \A i \in DOMAIN heap :
        ( /\ Filled(i)
          /\ ItemOf(CacheKey) # i
          /\ Drained(i)
          /\ \A p \in Procs : op[p] = "Delete" => item[p] # i )
        => closerCalls[i] = 1
(* C13 as stated: a Get whose fetch declined to cache returns the value that
   fetch produced and a nil release callback. *)
C13_DeclinedValueReturned ==
    \A p \in Procs :
        (op[p] = "Get" /\ pc[p] = "returned" /\ doFn[p] = "reject") =>
            /\ ret[p].val = Payload(p)
            /\ handle[p] = Nil

(* C14 as stated: a Purge with a keep that returns has removed from the
   index every filled item whose value keep rejects. *)
C14_PurgeRemovesRejected ==
    [][\A p \in Procs :
          (op'[p] = "PurgeKeep" /\ pc[p] # "returned" /\ pc'[p] = "returned") =>
              \A i \in DOMAIN heap :
                  (ItemOf(CacheKey) = i /\ Filled(i)
                      /\ heap[i].value \in keepFn'[p])
                  => ItemOf(CacheKey)' # i
      ]_vars

(* The Get calls whose fill callback is executing on item i. *)
Fetching(i) == {p \in Procs : op[p] = "Get" /\ pc[p] = "callback" /\ item[p] = i}

(* C15: on one item at most one fill callback executes at a time, fetch is
   invoked only by the call whose callback executes and only while the item
   is unfilled, so that no other Get on the item starts a fetch of its own
   meanwhile, and the item is filled once, by that fetch, and stays
   filled. *)
C15_OneFetchPerItem ==
    /\ [](\A i \in DOMAIN heap : Cardinality(Fetching(i)) <= 1)
    /\ [][/\ \A p \in Procs : fetched'[p] # fetched[p] =>
                /\ fetched'[p] = fetched[p] + 1
                /\ p \in Fetching(item[p])
                /\ heap[item[p]].fillCalls
          /\ \A i \in DOMAIN heap : heap'[i].fillCalls # heap[i].fillCalls =>
                /\ heap[i].fillCalls
                /\ \E p \in Fetching(i) : /\ fetched'[p] = fetched[p] + 1
                                          /\ heap'[i].value = Payload(p)
        ]_vars

(* A Get that waited in the select of the call state on which another Get
   fetched has received the item that Get filled, without a fetch of its
   own. *)
C15_Witness ==
    \E i \in DOMAIN heap : \E p, q \in Procs :
        /\ p # q
        /\ Fillers(i) = {p}
        /\ inner[q] = inner[p]
        /\ q \in Holders(i)
        /\ fetched[q] = 0
        /\ via[q] = "done"
        /\ ret[q].val = Payload(p)

-----------------------------------------------------------------------------
(* Properties of ErrFuncs *)

(* The functions of spawn g and of the spawns before it. *)
History(g) == {t \in DOMAIN funcs : funcs[t].spawn # Nil /\ funcs[t].spawn <= g}

(* The functions of spawn g. *)
Own(g) == Range(spawns[g].funcs)

(* Function t has reported its result: it was sent to funcResults. *)
Reported(t) == funcs[t].pc = "sent"

(* Function t reported a result that is not ignored. *)
Counted(t) == Reported(t) /\ funcs[t].err # IgnoreResult

(* C16: when a spawn's allDone is closed, every function of the spawn and of
   every earlier spawn has reported its result and the run goroutines have
   received them, and anyNot is closed with the error of one of these
   functions if a function of the spawn itself reported an error that is not
   ignored; and when no callback panics, allDone is closed eventually. *)
C16_AllDoneAfterHistory ==
    /\ [](\A g \in DOMAIN spawns : spawns[g].allDone =>
            /\ \A t \in History(g) : Reported(t)
            /\ \A h \in 1..g : /\ spawns[h].allDone
                               /\ spawns[h].received = Len(spawns[h].funcs)
                               /\ spawns[h].funcResults = <<>>
            /\ (\E t \in Own(g) : Counted(t) /\ funcs[t].err # NilErr) =>
                  /\ spawns[g].anyNot
                  /\ \E t \in History(g) :
                        Counted(t) /\ funcs[t].err = spawns[g].firstError)
    /\ \A g \in FuncIds :
          (g \in DOMAIN spawns) ~>
             (/\ g \in DOMAIN spawns
              /\ \/ spawns[g].allDone
                 \/ \E t \in History(g) : funcs[t].pc = "recovered")

(* Add fn1, AllDone, Add fn2, AllDone: fn1 succeeded, fn2 failed, and the
   second allDone is closed with anyNot closed on fn2's error. *)
C16_Witness ==
    /\ Len(spawns) = 2
    /\ spawns[1].funcs = <<1>>
    /\ spawns[2].funcs = <<2>>
    /\ funcs[1].err = NilErr
    /\ funcs[2].err = FnErr
    /\ spawns[2].allDone
    /\ spawns[2].anyNot
    /\ spawns[2].firstError = FnErr

(* C17 as stated: when a spawn's allDone is closed, its anyOK is closed if a
   function of the spawn or of an earlier spawn reported a success, and its
   anyNot is closed if one reported an error that is not ignored. *)
C17_FirstCoversHistory ==
    \A g \in DOMAIN spawns : spawns[g].allDone =>
        /\ (\E t \in History(g) : Counted(t) /\ funcs[t].err = NilErr)
              => spawns[g].anyOK
        /\ (\E t \in History(g) : Counted(t) /\ funcs[t].err # NilErr)
              => spawns[g].anyNot

(* The latches of a spawn. *)
Latches(s) == <<s.firstDone, s.anyOK, s.anyNot, s.firstResult, s.firstError>>

(* C18: a function's result is ignored exactly when it returned IgnoreResult
   or the error of its done context; an ignored result is received and
   counted by run without a change of the latches, a latch is closed only
   when a function of the history reported a result of its kind that is not
   ignored, and mon was called once for every reported result that is not
   ignored of a function with a monitor, and never otherwise. *)
C18_IgnoredResults ==
    /\ [][/\ \A t \in DOMAIN funcs : (funcs[t].pc = "fn" /\ funcs'[t].pc = "sent") =>
                /\ (funcs[t].ctx /\ ctxDone) => funcs'[t].err # CtxErr
                /\ funcs'[t].err = IgnoreResult => funcs'[t].monCalls = 0
          /\ \A g \in DOMAIN spawns :
                (/\ spawns'[g].received = spawns[g].received + 1
                 /\ Head(spawns[g].funcResults) = IgnoreResult) =>
                    Latches(spawns'[g]) = Latches(spawns[g])
        ]_vars
    /\ [](\A t \in DOMAIN funcs :
             funcs[t].monCalls =
                (IF Counted(t) /\ funcs[t].mon THEN 1 ELSE 0))
    /\ [](\A g \in DOMAIN spawns :
             /\ spawns[g].firstDone => \E t \in History(g) : Counted(t)
             /\ spawns[g].anyOK =>
                   \E t \in History(g) : Counted(t) /\ funcs[t].err = NilErr
             /\ spawns[g].anyNot =>
                   \E t \in History(g) : Counted(t) /\ funcs[t].err # NilErr)

(* A spawn's allDone is closed after its two functions reported: one ignored
   for its done context, one that returned IgnoreResult; both have a monitor
   that was not called, and no latch is closed. *)
C18_Witness ==
    \E g \in DOMAIN spawns :
        /\ spawns[g].allDone
        /\ spawns[g].received = 2
        /\ ctxDone
        /\ \A t \in Own(g) :
              /\ funcs[t].mon
              /\ funcs[t].err = IgnoreResult
              /\ funcs[t].monCalls = 0
        /\ \E t \in Own(g) : funcs[t].ctx
        /\ \E t \in Own(g) : ~funcs[t].ctx
        /\ ~spawns[g].firstDone /\ ~spawns[g].anyOK /\ ~spawns[g].anyNot

(* C19: a function is not called while it waits in addedFuncs, it is called
   once, by the accessor call that finds it there and makes the next spawn
   of it, and never again; an accessor call that finds no added function
   makes no spawn and calls nothing, and returns the last spawn if there is
   one. *)
C19_StartedOnce ==
    /\ [](\A t \in DOMAIN funcs :
             /\ funcs[t].fnCalls = (IF funcs[t].pc = "added" THEN 0 ELSE 1)
             /\ funcs[t].pc = "added" <=> t \in Range(addedFuncs)
             /\ funcs[t].pc # "added" =>
                   Cardinality({g \in DOMAIN spawns : t \in Own(g)}) = 1)
    /\ [](\A g \in DOMAIN spawns : spawns[g].funcs # <<>>)
    /\ [](started.spawn # Nil => started.spawn = lastSpawn)
    /\ [][/\ \A t \in DOMAIN funcs : funcs'[t].fnCalls # funcs[t].fnCalls =>
                /\ t \in Range(addedFuncs)
                /\ started'.created
                /\ started'.spawn = Len(spawns) + 1
          /\ (started' # started /\ addedFuncs = <<>>) =>
                /\ UNCHANGED <<addedFuncs, lastSpawn, funcs, spawns>>
                /\ started'.created <=> lastSpawn = Nil
        ]_vars

(* After Add and an accessor, another accessor was called: it returned the
   spawn that exists, and the function has been called once. *)
C19_Witness ==
    /\ Len(spawns) = 1
    /\ started = [spawn |-> 1, preClosed |-> FALSE, created |-> FALSE]
    /\ addedFuncs = <<>>
    /\ Len(funcs) = 1
    /\ funcs[1].fnCalls = 1
    /\ funcs[1].pc = "sent"

(* C20 as stated: when a callback panicked and its Recover hook was called,
   the error the hook returned has been reported to the spawn's run. *)
C20_RecoveredIsReported ==
    \A t \in DOMAIN funcs : funcs[t].recCalls > 0 => Reported(t)

(* C21: in every spawn a closed signal stays closed; close is called on a
   signal only while the seen flag that guards it is unset, and sets it, so
   no signal is closed twice; firstResult and firstError are written only in
   the step that closes firstDone and anyNot, before the close, and keep that
   value; the value is the result of a function of the history that is not
   ignored. *)
C21_LatchesOnce ==
    /\ [][\A g \in DOMAIN spawns :
            LET s == spawns[g]
                n == spawns'[g]
            IN /\ s.firstDone => n.firstDone /\ n.firstResult = s.firstResult
               /\ s.anyOK => n.anyOK
               /\ s.anyNot => n.anyNot /\ n.firstError = s.firstError
               /\ s.allDone => n.allDone
               /\ n.firstResult # s.firstResult => ~s.firstDone /\ n.firstDone
               /\ n.firstError # s.firstError => ~s.anyNot /\ n.anyNot
               /\ (~s.firstDone /\ n.firstDone) =>
                     \E t \in History(g) : Counted(t) /\ funcs[t].err = n.firstResult
               /\ (~s.anyNot /\ n.anyNot) =>
                     /\ n.firstError # NilErr
                     /\ \E t \in History(g) : Counted(t) /\ funcs[t].err = n.firstError
        ]_vars
    /\ [](\A g \in DOMAIN spawns :
            /\ spawns[g].seen.first = spawns[g].firstDone
            /\ spawns[g].seen.anyOK = spawns[g].anyOK
            /\ spawns[g].seen.anyNot = spawns[g].anyNot
            /\ ~spawns[g].firstDone => spawns[g].firstResult = NilErr
            /\ ~spawns[g].anyNot => spawns[g].firstError = NilErr
            /\ spawns[g].firstDone => ~spawns[g].prevFirstDone
            /\ spawns[g].anyOK => ~spawns[g].prevAnyOK
            /\ spawns[g].anyNot => ~spawns[g].prevAnyNot)

(* A spawn with two functions, the first reported an error and the second a
   success: all four signals are closed, and firstResult and firstError hold
   the first function's error. *)
C21_Witness ==
    \E g \in DOMAIN spawns :
        /\ spawns[g].funcs = <<1, 2>>
        /\ funcs[1].err = FnErr
        /\ funcs[2].err = NilErr
        /\ spawns[g].firstDone /\ spawns[g].anyOK
        /\ spawns[g].anyNot /\ spawns[g].allDone
        /\ spawns[g].firstResult = FnErr
        /\ spawns[g].firstError = FnErr

(* C22: an accessor called on a group without a spawn and without added
   functions returns a new object whose allDone is closed and whose other
   channels are nil, and makes no spawn and starts nothing; the first spawn,
   made by a later accessor call after an Add, has no previous spawn. *)
C22_EmptyGroup ==
    /\ [][/\ (lastSpawn = Nil /\ addedFuncs = <<>> /\ started' # started) =>
                /\ started' = [spawn |-> Nil, preClosed |-> TRUE, created |-> TRUE]
                /\ UNCHANGED <<addedFuncs, lastSpawn, funcs, spawns>>
          /\ (started' # started /\ started'.preClosed) =>
                lastSpawn = Nil /\ addedFuncs = <<>>
          /\ (started.preClosed /\ spawns' # spawns) =>
                /\ spawns' = <<NewSpawn(Nil, addedFuncs)>>
                /\ addedFuncs # <<>>
        ]_vars
    /\ [](started.preClosed => started.spawn = Nil)
    /\ [](\A g \in DOMAIN spawns :
             spawns[g].prevSpawn = (IF g = 1 THEN Nil ELSE g - 1))

(* An accessor was called on the empty group, and after an Add another
   accessor call made the first spawn. *)
C22_Witness ==
    /\ started = [spawn |-> 1, preClosed |-> FALSE, created |-> TRUE]
    /\ Len(spawns) = 1
    /\ spawns[1].prevSpawn = Nil
    /\ ~spawns[1].prevAllDone
    /\ spawns[1].allDone

(* The Get calls that hold the reference they took on item i at line 47 or
   line 66 and have not yet closed or handed out. *)
InGet(i) ==
    {p \in Procs : /\ op[p] = "Get"
                   /\ item[p] = i
                   /\ pc[p] \notin {"get_lookup", "get_create", "returned",
                                    "panicked"}}

(* The Get calls that ended without a release callback. *)
EndedBare == {p \in Procs : op[p] = "Get" /\ pc[p] = "returned" /\ handle[p] = Nil}

(* C25: a Get ends without a release callback only with the status Canceled
   from fill (its cancel channel fired or its fetch declined); it has invoked
   fetch at most once, and its last step gives up the one reference it took:
   the item's refs goes down by one and nothing else of the cache changes.
   While only Get calls have run and none has filled an item, the key's item
   is in the index, unfilled, and its refs is one for the index plus one for
   each Get still at work: each Get that ended this way left refs as it found
   it. *)
C25_BareGetFrame ==
    /\ [][\A p \in Procs :
            (op[p] = "Get" /\ pc[p] # "returned" /\ pc'[p] = "returned"
                /\ handle'[p] = Nil) =>
                LET i == item[p]
                IN /\ ret[p].status = Canceled
                   /\ cancel[p] = "closed" \/ doFn[p] = "reject"
                   /\ doFn[p] # "accept"
                   /\ fetched'[p] <= 1
                   /\ fetched[p] = 1 <=> doFn[p] = "reject"
                   /\ heap' = [heap EXCEPT ![i].refs = @ - 1]
                   /\ items' = items
                   /\ ret'[p].val = Nil
        ]_vars
    /\ []((/\ \A q \in Procs : op[q] \in {"none", "Get"}
           /\ \A j \in DOMAIN heap : ~Filled(j)) =>
              /\ Len(heap) <= 1
              /\ \A i \in DOMAIN heap :
                    /\ ItemOf(CacheKey) = i
                    /\ heap[i].refs = 1 + Cardinality(InGet(i))
                    /\ closerCalls[i] = 0)
    /\ [](\A p \in Procs : fetched[p] <= 1)

(* Two Get calls ended without a release callback, one canceled before any
   fetch and one whose fetch declined; the item is in the index, unfilled,
   with the index's reference only. *)
C25_Witness ==
    \E p, q \in EndedBare :
        /\ fetched[p] = 0 /\ cancel[p] = "closed"
        /\ fetched[q] = 1 /\ doFn[q] = "reject"
        /\ item[p] = item[q]
        /\ ItemOf(CacheKey) = item[p]
        /\ ~Filled(item[p])
        /\ heap[item[p]].refs = 1
        /\ \A r \in Procs \ {p, q} : op[r] = "none"

(* C26: an item in the index has refs >= 1, no item's refs is negative, and
   the ref() of line 47, taken under the read lock on the item found in the
   index, never raises refs from 0 and never takes a reference on an item
   whose releaser has been invoked by a close that brought refs to 0. *)
C26_IndexedHasRef ==
    /\ [](\A i \in DOMAIN heap :
            /\ heap[i].refs >= 0
            /\ ItemOf(CacheKey) = i => heap[i].refs >= 1 /\ closerCalls[i] = 0)
    /\ [][\A p \in Procs :
            (pc[p] = "get_lookup" /\ pc'[p] = "fill_load") =>
                LET i == item'[p]
                IN /\ i = ItemOf(CacheKey)
                   /\ heap[i].refs >= 1
                   /\ heap'[i].refs = heap[i].refs + 1
                   /\ heap[i].refs # 0
        ]_vars
    /\ [][\A i \in DOMAIN heap :
            (heap[i].refs = 0) => heap'[i].refs = 0
        ]_vars

(* A Get took a reference under the read lock on a filled item that another
   caller holds, after a third caller released its callback. *)
C26_Witness ==
    \E p, q, r \in Procs :
        /\ p # q /\ q # r /\ p # r
        /\ op[p] = "Get" /\ pc[p] = "fill_load" /\ fetched[p] = 0
        /\ item[p] = ItemOf(CacheKey)
        /\ Filled(item[p])
        /\ handle[q] = item[p] /\ ~released[q]
        /\ handle[r] = item[p] /\ released[r]
        /\ heap[item[p]].refs = 3

(* The call state c is the value of some key of some Calls object. *)
Indexed(c) == \E g \in DOMAIN groups : \E k \in DOMAIN groups[g] : groups[g][k] = c

(* C27: a call state is accepted at most once: acceptedBy is set once, the
   result is written in the accepting step only, while done is open, and never
   again; done is closed once (close is never called on a closed done) and
   stays closed; the call state has left the index when done closes and never
   comes back; from the acceptance on its leader channel holds no token and
   no caller registered on it starts a callback. *)
C27_OneAcceptance ==
    /\ [][\A c \in DOMAIN calls :
            /\ acceptedBy'[c] # acceptedBy[c] =>
                  /\ acceptedBy[c] = Nil
                  /\ ~calls[c].done
                  /\ pc[acceptedBy'[c]] = "callback"
                  /\ inner[acceptedBy'[c]] = c
            /\ calls'[c].result # calls[c].result =>
                  acceptedBy[c] = Nil /\ acceptedBy'[c] # Nil /\ ~calls'[c].done
            /\ calls[c].done => calls'[c].done
            /\ (~calls[c].done /\ calls'[c].done) =>
                  /\ acceptedBy[c] # Nil
                  /\ ~Indexed(c)
                  /\ calls[c].result = Payload(acceptedBy[c])
            /\ (Accepted(c) /\ ~Indexed(c)) => ~Indexed(c)'
        ]_vars
    /\ [][\A q \in Procs :
            (pc[q] # "callback" /\ pc'[q] = "callback") =>
                ~Accepted(inner[q]) /\ ~Accepted(inner[q])'
        ]_vars
    /\ [](\A c \in DOMAIN calls :
            /\ Accepted(c) => calls[c].leader = 0
            /\ calls[c].done => Accepted(c) /\ ~Indexed(c)
            /\ \A p \in Procs :
                  (pc[p] = "close" /\ inner[p] = c) =>
                      ~calls[c].done /\ acceptedBy[c] = p)

(* A retired call state: accepted, done closed, with another caller that was
   registered on it and returned its result without a callback, while the
   key has a new call state. *)
C27_Witness ==
    \E c \in DOMAIN calls : \E q \in Procs :
        /\ Accepted(c) /\ calls[c].done
        /\ q # acceptedBy[c]
        /\ inner[q] = c
        /\ pc[q] = "returned" /\ called[q] = 0
        /\ ret[q] = Ret(Payload(acceptedBy[c]), Shared)
        /\ Lookup(UserCalls, key[q]) \notin {Nil, c}

(* C28 as stated: every Purge call returns; none waits for ever on the
   cache's own lock, that is, no Purge call waits in Lock for the readers to
   leave while it is itself one of the readers. *)
C28_PurgeReturns ==
    \A p \in Procs :
        op[p] \in {"Purge", "PurgeKeep"} =>
            ~(pc[p] = "purge_blocked" /\ p \in MuReaders)

(* C29 as stated: Delete completes without a failure whether the key's item
   is absent, unfilled or filled. *)
C29_DeleteCompletes ==
    \A p \in Procs : op[p] = "Delete" => pc[p] # "panicked"

-----------------------------------------------------------------------------
(* Properties of Cache *)

(* The Cache.Get calls that returned a value. *)
Served == {p \in Procs : /\ op[p] = "CacheGet"
                         /\ pc[p] = "returned"
                         /\ ret[p].status # Canceled}

(* C23 as stated, for the Get calls after a removal: once Delete, DeleteUnless
   or Purge has removed the key's value, a Get that starts afterwards is
   served by a callback invoked after the removal, its own or the one of a
   call it shares with: it never returns a value built before the removal. *)
C23_RemovedKeyRebuilt ==
    \A p \in Served :
        startGen[p] >= 1 =>
            \E q \in Procs : /\ ret[p].val = Payload(q)
                             /\ builtAt[q] >= startGen[p]

-----------------------------------------------------------------------------
(* Properties of WaitOKGroup *)

(* The functions of spawn g and of the spawns before it. *)
RECURSIVE OKHistory(_)
OKHistory(g) ==
    IF g = Nil THEN {}
    ELSE Range(okSpawns[g].funcs) \cup OKHistory(okSpawns[g].prev)

(* The functions of the set S that returned the value ok. *)
OKReturned(S, ok) == {t \in S : okParams[t].pc = "sent" /\ okParams[t].ok = ok}

(* C24 as stated: once the allDone of the spawn that AllDone returned is
   closed, its aggResult.anyOK is true exactly when a function of the history
   returned true, and its aggResult.anyNot exactly when one returned false. *)
C24_AggregatedResults ==
    LET g == okStarted.spawn
    IN (g # Nil /\ okSpawns[g].allDone) =>
          /\ okSpawns[g].aggResult.anyOK <=> OKReturned(OKHistory(g), TRUE) # {}
          /\ okSpawns[g].aggResult.anyNot <=> OKReturned(OKHistory(g), FALSE) # {}

=============================================================================
